---------------------------- MODULE Spec2Model ----------------------------
(***************************************************************************)
(* AES (FIPS 197) block cipher of src/aes/generic.rs: constant tables, key *)
(* schedule, round transforms, the round engine and the ExpandedKey128 /   *)
(* ExpandedKey192 / ExpandedKey256 facade generated by impl_aes!; and the  *)
(* RC2 (RFC 2268) block cipher of src/rc2.rs.                              *)
(*                                                                         *)
(* Byte arrays ([u8; N], &[u8]) and the constant tables are tuples, so     *)
(* element i of a source array a is a[i + 1].  A call that panics          *)
(* (assert!, a slice index out of range, copy_from_slice of another        *)
(* length) yields PANIC, any other call Ok(v) with the value v it leaves.  *)
(***************************************************************************)
EXTENDS Integers, Sequences, FiniteSets, TLC

\* ------------------------------------------------------------------------
\* Program constants (generic.rs lines 31..47)
WORD_SIZE == 4
AES_BLOCK_LEN == 16
AES_NB == AES_BLOCK_LEN \div WORD_SIZE
AES128_KEY_LEN == 16
AES192_KEY_LEN == 24
AES256_KEY_LEN == 32
AES128_NR == 10
AES192_NR == 12
AES256_NR == 14

\* The round constant word array (u32 values), generic.rs line 100
RCON == << 1, 2, 4, 8, 16, 32, 64, 128, 27, 54 >>

\* FORWARD_S_BOX: generic.rs lines 104..122; entry x of the source array is FORWARD_S_BOX[x + 1]
FORWARD_S_BOX ==
    <<  99, 124, 119, 123, 242, 107, 111, 197,  48,   1, 103,  43, 254, 215, 171, 118,
       202, 130, 201, 125, 250,  89,  71, 240, 173, 212, 162, 175, 156, 164, 114, 192,
       183, 253, 147,  38,  54,  63, 247, 204,  52, 165, 229, 241, 113, 216,  49,  21,
         4, 199,  35, 195,  24, 150,   5, 154,   7,  18, 128, 226, 235,  39, 178, 117,
         9, 131,  44,  26,  27, 110,  90, 160,  82,  59, 214, 179,  41, 227,  47, 132,
        83, 209,   0, 237,  32, 252, 177,  91, 106, 203, 190,  57,  74,  76,  88, 207,
       208, 239, 170, 251,  67,  77,  51, 133,  69, 249,   2, 127,  80,  60, 159, 168,
        81, 163,  64, 143, 146, 157,  56, 245, 188, 182, 218,  33,  16, 255, 243, 210,
       205,  12,  19, 236,  95, 151,  68,  23, 196, 167, 126,  61, 100,  93,  25, 115,
        96, 129,  79, 220,  34,  42, 144, 136,  70, 238, 184,  20, 222,  94,  11, 219,
       224,  50,  58,  10,  73,   6,  36,  92, 194, 211, 172,  98, 145, 149, 228, 121,
       231, 200,  55, 109, 141, 213,  78, 169, 108,  86, 244, 234, 101, 122, 174,   8,
       186, 120,  37,  46,  28, 166, 180, 198, 232, 221, 116,  31,  75, 189, 139, 138,
       112,  62, 181, 102,  72,   3, 246,  14,  97,  53,  87, 185, 134, 193,  29, 158,
       225, 248, 152,  17, 105, 217, 142, 148, 155,  30, 135, 233, 206,  85,  40, 223,
       140, 161, 137,  13, 191, 230,  66, 104,  65, 153,  45,  15, 176,  84, 187,  22 >>

\* REVERSE_S_BOX: generic.rs lines 125..143; entry x of the source array is REVERSE_S_BOX[x + 1]
REVERSE_S_BOX ==
    <<  82,   9, 106, 213,  48,  54, 165,  56, 191,  64, 163, 158, 129, 243, 215, 251,
       124, 227,  57, 130, 155,  47, 255, 135,  52, 142,  67,  68, 196, 222, 233, 203,
        84, 123, 148,  50, 166, 194,  35,  61, 238,  76, 149,  11,  66, 250, 195,  78,
         8,  46, 161, 102,  40, 217,  36, 178, 118,  91, 162,  73, 109, 139, 209,  37,
       114, 248, 246, 100, 134, 104, 152,  22, 212, 164,  92, 204,  93, 101, 182, 146,
       108, 112,  72,  80, 253, 237, 185, 218,  94,  21,  70,  87, 167, 141, 157, 132,
       144, 216, 171,   0, 140, 188, 211,  10, 247, 228,  88,   5, 184, 179,  69,   6,
       208,  44,  30, 143, 202,  63,  15,   2, 193, 175, 189,   3,   1,  19, 138, 107,
        58, 145,  17,  65,  79, 103, 220, 234, 151, 242, 207, 206, 240, 180, 230, 115,
       150, 172, 116,  34, 231, 173,  53, 133, 226, 249,  55, 232,  28, 117, 223, 110,
        71, 241,  26, 113,  29,  41, 197, 137, 111, 183,  98,  14, 170,  24, 190,  27,
       252,  86,  62,  75, 198, 210, 121,  32, 154, 219, 192, 254, 120, 205,  90, 244,
        31, 221, 168,  51, 136,   7, 199,  49, 177,  18,  16,  89,  39, 128, 236,  95,
        96,  81, 127, 169,  25, 181,  74,  13,  45, 229, 122, 159, 147, 201, 156, 239,
       160, 224,  59,  77, 174,  42, 245, 176, 200, 235, 187,  60, 131,  83, 153,  97,
        23,  43,   4, 126, 186, 119, 214,  38, 225, 105,  20,  99,  85,  33,  12, 125 >>

\* GF_MUL2: generic.rs lines 145..162; entry x of the source array is GF_MUL2[x + 1]
GF_MUL2 ==
    <<   0,   2,   4,   6,   8,  10,  12,  14,  16,  18,  20,  22,  24,  26,  28,  30,
        32,  34,  36,  38,  40,  42,  44,  46,  48,  50,  52,  54,  56,  58,  60,  62,
        64,  66,  68,  70,  72,  74,  76,  78,  80,  82,  84,  86,  88,  90,  92,  94,
        96,  98, 100, 102, 104, 106, 108, 110, 112, 114, 116, 118, 120, 122, 124, 126,
       128, 130, 132, 134, 136, 138, 140, 142, 144, 146, 148, 150, 152, 154, 156, 158,
       160, 162, 164, 166, 168, 170, 172, 174, 176, 178, 180, 182, 184, 186, 188, 190,
       192, 194, 196, 198, 200, 202, 204, 206, 208, 210, 212, 214, 216, 218, 220, 222,
       224, 226, 228, 230, 232, 234, 236, 238, 240, 242, 244, 246, 248, 250, 252, 254,
        27,  25,  31,  29,  19,  17,  23,  21,  11,   9,  15,  13,   3,   1,   7,   5,
        59,  57,  63,  61,  51,  49,  55,  53,  43,  41,  47,  45,  35,  33,  39,  37,
        91,  89,  95,  93,  83,  81,  87,  85,  75,  73,  79,  77,  67,  65,  71,  69,
       123, 121, 127, 125, 115, 113, 119, 117, 107, 105, 111, 109,  99,  97, 103, 101,
       155, 153, 159, 157, 147, 145, 151, 149, 139, 137, 143, 141, 131, 129, 135, 133,
       187, 185, 191, 189, 179, 177, 183, 181, 171, 169, 175, 173, 163, 161, 167, 165,
       219, 217, 223, 221, 211, 209, 215, 213, 203, 201, 207, 205, 195, 193, 199, 197,
       251, 249, 255, 253, 243, 241, 247, 245, 235, 233, 239, 237, 227, 225, 231, 229 >>

\* GF_MUL3: generic.rs lines 163..180; entry x of the source array is GF_MUL3[x + 1]
GF_MUL3 ==
    <<   0,   3,   6,   5,  12,  15,  10,   9,  24,  27,  30,  29,  20,  23,  18,  17,
        48,  51,  54,  53,  60,  63,  58,  57,  40,  43,  46,  45,  36,  39,  34,  33,
        96,  99, 102, 101, 108, 111, 106, 105, 120, 123, 126, 125, 116, 119, 114, 113,
        80,  83,  86,  85,  92,  95,  90,  89,  72,  75,  78,  77,  68,  71,  66,  65,
       192, 195, 198, 197, 204, 207, 202, 201, 216, 219, 222, 221, 212, 215, 210, 209,
       240, 243, 246, 245, 252, 255, 250, 249, 232, 235, 238, 237, 228, 231, 226, 225,
       160, 163, 166, 165, 172, 175, 170, 169, 184, 187, 190, 189, 180, 183, 178, 177,
       144, 147, 150, 149, 156, 159, 154, 153, 136, 139, 142, 141, 132, 135, 130, 129,
       155, 152, 157, 158, 151, 148, 145, 146, 131, 128, 133, 134, 143, 140, 137, 138,
       171, 168, 173, 174, 167, 164, 161, 162, 179, 176, 181, 182, 191, 188, 185, 186,
       251, 248, 253, 254, 247, 244, 241, 242, 227, 224, 229, 230, 239, 236, 233, 234,
       203, 200, 205, 206, 199, 196, 193, 194, 211, 208, 213, 214, 223, 220, 217, 218,
        91,  88,  93,  94,  87,  84,  81,  82,  67,  64,  69,  70,  79,  76,  73,  74,
       107, 104, 109, 110, 103, 100,  97,  98, 115, 112, 117, 118, 127, 124, 121, 122,
        59,  56,  61,  62,  55,  52,  49,  50,  35,  32,  37,  38,  47,  44,  41,  42,
        11,   8,  13,  14,   7,   4,   1,   2,  19,  16,  21,  22,  31,  28,  25,  26 >>

\* GF_MUL9: generic.rs lines 182..199; entry x of the source array is GF_MUL9[x + 1]
GF_MUL9 ==
    <<   0,   9,  18,  27,  36,  45,  54,  63,  72,  65,  90,  83, 108, 101, 126, 119,
       144, 153, 130, 139, 180, 189, 166, 175, 216, 209, 202, 195, 252, 245, 238, 231,
        59,  50,  41,  32,  31,  22,  13,   4, 115, 122,  97, 104,  87,  94,  69,  76,
       171, 162, 185, 176, 143, 134, 157, 148, 227, 234, 241, 248, 199, 206, 213, 220,
       118, 127, 100, 109,  82,  91,  64,  73,  62,  55,  44,  37,  26,  19,   8,   1,
       230, 239, 244, 253, 194, 203, 208, 217, 174, 167, 188, 181, 138, 131, 152, 145,
        77,  68,  95,  86, 105,  96, 123, 114,   5,  12,  23,  30,  33,  40,  51,  58,
       221, 212, 207, 198, 249, 240, 235, 226, 149, 156, 135, 142, 177, 184, 163, 170,
       236, 229, 254, 247, 200, 193, 218, 211, 164, 173, 182, 191, 128, 137, 146, 155,
       124, 117, 110, 103,  88,  81,  74,  67,  52,  61,  38,  47,  16,  25,   2,  11,
       215, 222, 197, 204, 243, 250, 225, 232, 159, 150, 141, 132, 187, 178, 169, 160,
        71,  78,  85,  92,  99, 106, 113, 120,  15,   6,  29,  20,  43,  34,  57,  48,
       154, 147, 136, 129, 190, 183, 172, 165, 210, 219, 192, 201, 246, 255, 228, 237,
        10,   3,  24,  17,  46,  39,  60,  53,  66,  75,  80,  89, 102, 111, 116, 125,
       161, 168, 179, 186, 133, 140, 151, 158, 233, 224, 251, 242, 205, 196, 223, 214,
        49,  56,  35,  42,  21,  28,   7,  14, 121, 112, 107,  98,  93,  84,  79,  70 >>

\* GF_MUL11: generic.rs lines 200..217; entry x of the source array is GF_MUL11[x + 1]
GF_MUL11 ==
    <<   0,  11,  22,  29,  44,  39,  58,  49,  88,  83,  78,  69, 116, 127,  98, 105,
       176, 187, 166, 173, 156, 151, 138, 129, 232, 227, 254, 245, 196, 207, 210, 217,
       123, 112, 109, 102,  87,  92,  65,  74,  35,  40,  53,  62,  15,   4,  25,  18,
       203, 192, 221, 214, 231, 236, 241, 250, 147, 152, 133, 142, 191, 180, 169, 162,
       246, 253, 224, 235, 218, 209, 204, 199, 174, 165, 184, 179, 130, 137, 148, 159,
        70,  77,  80,  91, 106,  97, 124, 119,  30,  21,   8,   3,  50,  57,  36,  47,
       141, 134, 155, 144, 161, 170, 183, 188, 213, 222, 195, 200, 249, 242, 239, 228,
        61,  54,  43,  32,  17,  26,   7,  12, 101, 110, 115, 120,  73,  66,  95,  84,
       247, 252, 225, 234, 219, 208, 205, 198, 175, 164, 185, 178, 131, 136, 149, 158,
        71,  76,  81,  90, 107,  96, 125, 118,  31,  20,   9,   2,  51,  56,  37,  46,
       140, 135, 154, 145, 160, 171, 182, 189, 212, 223, 194, 201, 248, 243, 238, 229,
        60,  55,  42,  33,  16,  27,   6,  13, 100, 111, 114, 121,  72,  67,  94,  85,
         1,  10,  23,  28,  45,  38,  59,  48,  89,  82,  79,  68, 117, 126,  99, 104,
       177, 186, 167, 172, 157, 150, 139, 128, 233, 226, 255, 244, 197, 206, 211, 216,
       122, 113, 108, 103,  86,  93,  64,  75,  34,  41,  52,  63,  14,   5,  24,  19,
       202, 193, 220, 215, 230, 237, 240, 251, 146, 153, 132, 143, 190, 181, 168, 163 >>

\* GF_MUL13: generic.rs lines 218..235; entry x of the source array is GF_MUL13[x + 1]
GF_MUL13 ==
    <<   0,  13,  26,  23,  52,  57,  46,  35, 104, 101, 114, 127,  92,  81,  70,  75,
       208, 221, 202, 199, 228, 233, 254, 243, 184, 181, 162, 175, 140, 129, 150, 155,
       187, 182, 161, 172, 143, 130, 149, 152, 211, 222, 201, 196, 231, 234, 253, 240,
       107, 102, 113, 124,  95,  82,  69,  72,   3,  14,  25,  20,  55,  58,  45,  32,
       109,  96, 119, 122,  89,  84,  67,  78,   5,   8,  31,  18,  49,  60,  43,  38,
       189, 176, 167, 170, 137, 132, 147, 158, 213, 216, 207, 194, 225, 236, 251, 246,
       214, 219, 204, 193, 226, 239, 248, 245, 190, 179, 164, 169, 138, 135, 144, 157,
         6,  11,  28,  17,  50,  63,  40,  37, 110,  99, 116, 121,  90,  87,  64,  77,
       218, 215, 192, 205, 238, 227, 244, 249, 178, 191, 168, 165, 134, 139, 156, 145,
        10,   7,  16,  29,  62,  51,  36,  41,  98, 111, 120, 117,  86,  91,  76,  65,
        97, 108, 123, 118,  85,  88,  79,  66,   9,   4,  19,  30,  61,  48,  39,  42,
       177, 188, 171, 166, 133, 136, 159, 146, 217, 212, 195, 206, 237, 224, 247, 250,
       183, 186, 173, 160, 131, 142, 153, 148, 223, 210, 197, 200, 235, 230, 241, 252,
       103, 106, 125, 112,  83,  94,  73,  68,  15,   2,  21,  24,  59,  54,  33,  44,
        12,   1,  22,  27,  56,  53,  34,  47, 100, 105, 126, 115,  80,  93,  74,  71,
       220, 209, 198, 203, 232, 229, 242, 255, 180, 185, 174, 163, 128, 141, 154, 151 >>

\* GF_MUL14: generic.rs lines 236..253; entry x of the source array is GF_MUL14[x + 1]
GF_MUL14 ==
    <<   0,  14,  28,  18,  56,  54,  36,  42, 112, 126, 108,  98,  72,  70,  84,  90,
       224, 238, 252, 242, 216, 214, 196, 202, 144, 158, 140, 130, 168, 166, 180, 186,
       219, 213, 199, 201, 227, 237, 255, 241, 171, 165, 183, 185, 147, 157, 143, 129,
        59,  53,  39,  41,   3,  13,  31,  17,  75,  69,  87,  89, 115, 125, 111,  97,
       173, 163, 177, 191, 149, 155, 137, 135, 221, 211, 193, 207, 229, 235, 249, 247,
        77,  67,  81,  95, 117, 123, 105, 103,  61,  51,  33,  47,   5,  11,  25,  23,
       118, 120, 106, 100,  78,  64,  82,  92,   6,   8,  26,  20,  62,  48,  34,  44,
       150, 152, 138, 132, 174, 160, 178, 188, 230, 232, 250, 244, 222, 208, 194, 204,
        65,  79,  93,  83, 121, 119, 101, 107,  49,  63,  45,  35,   9,   7,  21,  27,
       161, 175, 189, 179, 153, 151, 133, 139, 209, 223, 205, 195, 233, 231, 245, 251,
       154, 148, 134, 136, 162, 172, 190, 176, 234, 228, 246, 248, 210, 220, 206, 192,
       122, 116, 102, 104,  66,  76,  94,  80,  10,   4,  22,  24,  50,  60,  46,  32,
       236, 226, 240, 254, 212, 218, 200, 198, 156, 146, 128, 142, 164, 170, 184, 182,
        12,   2,  16,  30,  52,  58,  40,  38, 124, 114,  96, 110,  68,  74,  88,  86,
        55,  57,  43,  37,  15,   1,  19,  29,  71,  73,  91,  85, 127, 113,  99, 109,
       215, 217, 203, 197, 239, 225, 243, 253, 167, 169, 187, 181, 159, 145, 131, 141 >>
TestKey128Bytes ==
    <<  43, 126,  21,  22,  40, 174, 210, 166, 171, 247,  21, 136,   9, 207,  79,  60 >>

TestExpanded128Bytes ==
    <<  43, 126,  21,  22,  40, 174, 210, 166, 171, 247,  21, 136,   9, 207,  79,  60,
       160, 250, 254,  23, 136,  84,  44, 177,  35, 163,  57,  57,  42, 108, 118,   5,
       242, 194, 149, 242, 122, 150, 185,  67,  89,  53, 128, 122, 115,  89, 246, 127,
        61, 128,  71, 125,  71,  22, 254,  62,  30,  35, 126,  68, 109, 122, 136,  59,
       239,  68, 165,  65, 168,  82,  91, 127, 182, 113,  37,  59, 219,  11, 173,   0,
       212, 209, 198, 248, 124, 131, 157, 135, 202, 242, 184, 188,  17, 249,  21, 188,
       109, 136, 163, 122,  17,  11,  62, 253, 219, 249, 134,  65, 202,   0, 147, 253,
        78,  84, 247,  14,  95,  95, 201, 243, 132, 166,  79, 178,  78, 166, 220,  79,
       234, 210, 115,  33, 181, 141, 186, 210,  49,  43, 245,  96, 127, 141,  41,  47,
       172, 119, 102, 243,  25, 250, 220,  33,  40, 209,  41,  65,  87,  92,   0, 110,
       208,  20, 249, 168, 201, 238,  37, 137, 225,  63,  12, 200, 182,  99,  12, 166 >>

TestKey192Bytes ==
    << 142, 115, 176, 247, 218,  14, 100,  82, 200,  16, 243,  43, 128, 144, 121, 229,
        98, 248, 234, 210,  82,  44, 107, 123 >>

TestExpanded192Bytes ==
    << 142, 115, 176, 247, 218,  14, 100,  82, 200,  16, 243,  43, 128, 144, 121, 229,
        98, 248, 234, 210,  82,  44, 107, 123, 254,  12, 145, 247,  36,   2, 245, 165,
       236,  18,   6, 142, 108, 130, 127, 107,  14, 122, 149, 185,  92,  86, 254, 194,
        77, 183, 180, 189, 105, 181,  65,  24, 133, 167,  71, 150, 233,  37,  56, 253,
       231,  95, 173,  68, 187,   9,  83, 134,  72,  90, 240,  87,  33, 239, 177,  79,
       164,  72, 246, 217,  77, 109, 206,  36, 170,  50,  99,  96,  17,  59,  48, 230,
       162,  94, 126, 213, 131, 177, 207, 154,  39, 249,  57,  67, 106, 148, 247, 103,
       192, 166, 148,   7, 209, 157, 164, 225, 236,  23, 134, 235, 111, 166,  73, 113,
        72,  95, 112,  50,  34, 203, 135,  85, 226, 109,  19,  82,  51, 240, 183, 179,
        64, 190, 235,  40,  47,  24, 162,  89, 103,  71, 210, 107,  69, 140,  85,  62,
       167, 225,  70, 108, 148,  17, 241, 223, 130,  31, 117,  10, 173,   7, 215,  83,
       202,  64,   5,  56, 143, 204,  80,   6,  40,  45,  22, 106, 188,  60, 231, 181,
       233, 139, 160, 111,  68, 140, 119,  60, 142, 204, 114,   4,   1,   0,  34,   2 >>

TestKey256Bytes ==
    <<  96,  61, 235,  16,  21, 202, 113, 190,  43, 115, 174, 240, 133, 125, 119, 129,
        31,  53,  44,   7,  59,  97,   8, 215,  45, 152,  16, 163,   9,  20, 223, 244 >>

TestExpanded256Bytes ==
    <<  96,  61, 235,  16,  21, 202, 113, 190,  43, 115, 174, 240, 133, 125, 119, 129,
        31,  53,  44,   7,  59,  97,   8, 215,  45, 152,  16, 163,   9,  20, 223, 244,
       155, 163,  84,  17, 142, 105,  37, 175, 165,  26, 139,  95,  32, 103, 252, 222,
       168, 176, 156,  26, 147, 209, 148, 205, 190,  73, 132, 110, 183,  93,  91, 154,
       213, 154, 236, 184,  91, 243, 201,  23, 254, 233,  66,  72, 222, 142, 190, 150,
       181, 169,  50, 138,  38, 120, 166,  71, 152,  49,  34,  41,  47, 108, 121, 179,
       129,  44, 129, 173, 218, 223,  72, 186,  36,  54,  10, 242, 250, 184, 180, 100,
       152, 197, 191, 201, 190, 189,  25, 142,  38, 140,  59, 167,   9, 224,  66,  20,
       104,   0, 123, 172, 178, 223,  51,  22, 150, 233,  57, 228, 108,  81, 141, 128,
       200,  20, 226,   4, 118, 169, 251, 138,  80,  37, 192,  45,  89, 197, 130,  57,
       222,  19, 105, 103, 108, 204,  90, 113, 250,  37,  99, 149, 150, 116, 238,  21,
        88, 134, 202,  93,  46,  47,  49, 215, 126,  10, 241, 250,  39, 207, 115, 195,
       116, 156,  71, 171,  24,  80,  29, 218, 226, 117, 126,  79, 116,   1, 144,  90,
       202, 250, 170, 227, 228, 213, 155,  52, 154, 223, 106, 206, 189,  16,  25,  13,
       254,  72, 144, 209, 230,  24, 141,  11,   4, 109, 243,  68, 112, 108,  99,  30 >>

\* ------------------------------------------------------------------------
\* Inputs: the keys and blocks of the source's tests, and keys of every length
\* class (too short, between the variants, too long)

\* a byte array given by its bytes: element i of the source array is t[i + 1]
bytes(t) == t

\* hex "000102..": byte i is i (test_example_vectors, generic.rs lines 835, 854, 872)
RECURSIVE SeqKey(_)
SeqKey(n) == IF n = 0 THEN << >> ELSE Append(SeqKey(n - 1), n - 1)

\* hex "00112233445566778899aabbccddeeff" (generic.rs line 834)
Block0011 ==
    bytes(<< 0, 17, 34, 51, 68, 85, 102, 119, 136, 153, 170, 187, 204, 221, 238, 255 >>)

\* hex "3243f6a8885a308d313198a2e0370734" (generic.rs line 777)
Block3243 == bytes(<< 50, 67, 246, 168, 136, 90, 48, 141, 49, 49, 152, 162, 224, 55, 7, 52 >>)

\* the ciphertexts the tests expect (generic.rs lines 791..795, 845, 863, 881)
Cipher3925 == bytes(<< 57, 37, 132, 29, 2, 220, 9, 251, 220, 17, 133, 151, 25, 106, 11, 50 >>)
Cipher69c4 == bytes(<< 105, 196, 224, 216, 106, 123, 4, 48, 216, 205, 183, 128, 112, 180, 197, 90 >>)
Cipherdda9 == bytes(<< 221, 169, 124, 164, 134, 76, 223, 224, 110, 175, 112, 160, 236, 13, 113, 145 >>)
Cipher8ea2 == bytes(<< 142, 162, 183, 202, 81, 103, 69, 191, 234, 252, 73, 144, 75, 73, 96, 137 >>)

TestKey128 == bytes(TestKey128Bytes)
TestKey192 == bytes(TestKey192Bytes)
TestKey256 == bytes(TestKey256Bytes)
TestExpanded128 == bytes(TestExpanded128Bytes)
TestExpanded192 == bytes(TestExpanded192Bytes)
TestExpanded256 == bytes(TestExpanded256Bytes)

\* ------------------------------------------------------------------------
\* Byte arrays and u8 arithmetic

\* len() of a slice / array
len(a) == Len(a)

\* the array [0u8; n]
RECURSIVE zeroed(_)
zeroed(n) ==
    IF n = 0 THEN << >>
    ELSE IF n % 2 = 1 THEN Append(zeroed(n - 1), 0)
    ELSE LET h == zeroed(n \div 2) IN h \o h

\* the ^ operator on 4-bit values: XOR4[a + 1][b + 1] is a ^ b
XOR4 ==
    << <<  0,  1,  2,  3,  4,  5,  6,  7,  8,  9, 10, 11, 12, 13, 14, 15 >>,
       <<  1,  0,  3,  2,  5,  4,  7,  6,  9,  8, 11, 10, 13, 12, 15, 14 >>,
       <<  2,  3,  0,  1,  6,  7,  4,  5, 10, 11,  8,  9, 14, 15, 12, 13 >>,
       <<  3,  2,  1,  0,  7,  6,  5,  4, 11, 10,  9,  8, 15, 14, 13, 12 >>,
       <<  4,  5,  6,  7,  0,  1,  2,  3, 12, 13, 14, 15,  8,  9, 10, 11 >>,
       <<  5,  4,  7,  6,  1,  0,  3,  2, 13, 12, 15, 14,  9,  8, 11, 10 >>,
       <<  6,  7,  4,  5,  2,  3,  0,  1, 14, 15, 12, 13, 10, 11,  8,  9 >>,
       <<  7,  6,  5,  4,  3,  2,  1,  0, 15, 14, 13, 12, 11, 10,  9,  8 >>,
       <<  8,  9, 10, 11, 12, 13, 14, 15,  0,  1,  2,  3,  4,  5,  6,  7 >>,
       <<  9,  8, 11, 10, 13, 12, 15, 14,  1,  0,  3,  2,  5,  4,  7,  6 >>,
       << 10, 11,  8,  9, 14, 15, 12, 13,  2,  3,  0,  1,  6,  7,  4,  5 >>,
       << 11, 10,  9,  8, 15, 14, 13, 12,  3,  2,  1,  0,  7,  6,  5,  4 >>,
       << 12, 13, 14, 15,  8,  9, 10, 11,  4,  5,  6,  7,  0,  1,  2,  3 >>,
       << 13, 12, 15, 14,  9,  8, 11, 10,  5,  4,  7,  6,  1,  0,  3,  2 >>,
       << 14, 15, 12, 13, 10, 11,  8,  9,  6,  7,  4,  5,  2,  3,  0,  1 >>,
       << 15, 14, 13, 12, 11, 10,  9,  8,  7,  6,  5,  4,  3,  2,  1,  0 >> >>

\* the ^ operator on u8, tabulated once: XOR8[a + 1][b + 1] is a ^ b
XOR8 ==
    SubSeq([a \in 1..256 |->
               SubSeq([b \in 1..256 |->
                          16 * XOR4[((a - 1) \div 16) + 1][((b - 1) \div 16) + 1]
                             + XOR4[((a - 1) % 16) + 1][((b - 1) % 16) + 1]],
                      1, 256)],
           1, 256)

\* a ^ b
Xor(a, b) == XOR8[a + 1][b + 1]

\* u32::to_le_bytes
to_le_bytes(x) ==
    << x % 256, (x \div 256) % 256, (x \div 65536) % 256, (x \div 16777216) % 256 >>

\* the result of a call: the value it returns, or a panic
Ok(v) == [panic |-> FALSE, val |-> v]
PANIC == [panic |-> TRUE]

\* ------------------------------------------------------------------------
\* Table lookups

sub_byte(x) == FORWARD_S_BOX[x + 1]
gf_mul2(v) == GF_MUL2[v + 1]
\* gf_mul3 as 2v + v with the integer sum in place of XOR (a faulty variant)
gf_mul3_integer_sum(v) == (GF_MUL2[v + 1] + v) % 256

gf_mul3(v) == GF_MUL3[v + 1]
\* gf_mul9 as 8v, without the term v (a faulty variant)
gf_mul9_without_unit(v) == GF_MUL2[GF_MUL2[GF_MUL2[v + 1] + 1] + 1]

gf_mul9(v) == GF_MUL9[v + 1]
gf_mul11(v) == GF_MUL11[v + 1]
gf_mul13(v) == GF_MUL13[v + 1]
gf_mul14(v) == GF_MUL14[v + 1]

\* ------------------------------------------------------------------------
\* Round transforms on the 16-byte state

\* sub_bytes: state[i] = FORWARD_S_BOX[state[i]] for each of the 16 bytes
sub_bytes(state) ==
    << FORWARD_S_BOX[state[1] + 1], FORWARD_S_BOX[state[2] + 1], FORWARD_S_BOX[state[3] + 1], FORWARD_S_BOX[state[4] + 1],
       FORWARD_S_BOX[state[5] + 1], FORWARD_S_BOX[state[6] + 1], FORWARD_S_BOX[state[7] + 1], FORWARD_S_BOX[state[8] + 1],
       FORWARD_S_BOX[state[9] + 1], FORWARD_S_BOX[state[10] + 1], FORWARD_S_BOX[state[11] + 1], FORWARD_S_BOX[state[12] + 1],
       FORWARD_S_BOX[state[13] + 1], FORWARD_S_BOX[state[14] + 1], FORWARD_S_BOX[state[15] + 1], FORWARD_S_BOX[state[16] + 1] >>

\* mix_columns computing the last column from the bytes of the first
\* (a faulty variant)
mix_columns_last_from_first(state) ==
    << Xor(Xor(Xor(gf_mul2(state[1]), gf_mul3(state[2])), state[3]), state[4]),
       Xor(Xor(Xor(state[1], gf_mul2(state[2])), gf_mul3(state[3])), state[4]),
       Xor(Xor(Xor(state[1], state[2]), gf_mul2(state[3])), gf_mul3(state[4])),
       Xor(Xor(Xor(gf_mul3(state[1]), state[2]), state[3]), gf_mul2(state[4])),
       Xor(Xor(Xor(gf_mul2(state[5]), gf_mul3(state[6])), state[7]), state[8]),
       Xor(Xor(Xor(state[5], gf_mul2(state[6])), gf_mul3(state[7])), state[8]),
       Xor(Xor(Xor(state[5], state[6]), gf_mul2(state[7])), gf_mul3(state[8])),
       Xor(Xor(Xor(gf_mul3(state[5]), state[6]), state[7]), gf_mul2(state[8])),
       Xor(Xor(Xor(gf_mul2(state[9]), gf_mul3(state[10])), state[11]), state[12]),
       Xor(Xor(Xor(state[9], gf_mul2(state[10])), gf_mul3(state[11])), state[12]),
       Xor(Xor(Xor(state[9], state[10]), gf_mul2(state[11])), gf_mul3(state[12])),
       Xor(Xor(Xor(gf_mul3(state[9]), state[10]), state[11]), gf_mul2(state[12])),
       Xor(Xor(Xor(gf_mul2(state[1]), gf_mul3(state[2])), state[3]), state[4]),
       Xor(Xor(Xor(state[1], gf_mul2(state[2])), gf_mul3(state[3])), state[4]),
       Xor(Xor(Xor(state[1], state[2]), gf_mul2(state[3])), gf_mul3(state[4])),
       Xor(Xor(Xor(gf_mul3(state[1]), state[2]), state[3]), gf_mul2(state[4])) >>

\* mix_columns: c is computed from the old state, then copied into it
mix_columns(state) ==
    << Xor(Xor(Xor(gf_mul2(state[1]), gf_mul3(state[2])), state[3]), state[4]),
       Xor(Xor(Xor(state[1], gf_mul2(state[2])), gf_mul3(state[3])), state[4]),
       Xor(Xor(Xor(state[1], state[2]), gf_mul2(state[3])), gf_mul3(state[4])),
       Xor(Xor(Xor(gf_mul3(state[1]), state[2]), state[3]), gf_mul2(state[4])),
       Xor(Xor(Xor(gf_mul2(state[5]), gf_mul3(state[6])), state[7]), state[8]),
       Xor(Xor(Xor(state[5], gf_mul2(state[6])), gf_mul3(state[7])), state[8]),
       Xor(Xor(Xor(state[5], state[6]), gf_mul2(state[7])), gf_mul3(state[8])),
       Xor(Xor(Xor(gf_mul3(state[5]), state[6]), state[7]), gf_mul2(state[8])),
       Xor(Xor(Xor(gf_mul2(state[9]), gf_mul3(state[10])), state[11]), state[12]),
       Xor(Xor(Xor(state[9], gf_mul2(state[10])), gf_mul3(state[11])), state[12]),
       Xor(Xor(Xor(state[9], state[10]), gf_mul2(state[11])), gf_mul3(state[12])),
       Xor(Xor(Xor(gf_mul3(state[9]), state[10]), state[11]), gf_mul2(state[12])),
       Xor(Xor(Xor(gf_mul2(state[13]), gf_mul3(state[14])), state[15]), state[16]),
       Xor(Xor(Xor(state[13], gf_mul2(state[14])), gf_mul3(state[15])), state[16]),
       Xor(Xor(Xor(state[13], state[14]), gf_mul2(state[15])), gf_mul3(state[16])),
       Xor(Xor(Xor(gf_mul3(state[13]), state[14]), state[15]), gf_mul2(state[16])) >>

\* inv_sub_bytes looking its bytes up in the forward S-box (a faulty variant)
inv_sub_bytes_forward_box(state) ==
    [i \in 1..AES_BLOCK_LEN |-> FORWARD_S_BOX[state[i] + 1]]

\* inv_sub_bytes: state[i] = REVERSE_S_BOX[state[i]] for each of the 16 bytes
inv_sub_bytes(state) ==
    << REVERSE_S_BOX[state[1] + 1], REVERSE_S_BOX[state[2] + 1], REVERSE_S_BOX[state[3] + 1], REVERSE_S_BOX[state[4] + 1],
       REVERSE_S_BOX[state[5] + 1], REVERSE_S_BOX[state[6] + 1], REVERSE_S_BOX[state[7] + 1], REVERSE_S_BOX[state[8] + 1],
       REVERSE_S_BOX[state[9] + 1], REVERSE_S_BOX[state[10] + 1], REVERSE_S_BOX[state[11] + 1], REVERSE_S_BOX[state[12] + 1],
       REVERSE_S_BOX[state[13] + 1], REVERSE_S_BOX[state[14] + 1], REVERSE_S_BOX[state[15] + 1], REVERSE_S_BOX[state[16] + 1] >>

\* inv_mix_columns: c is computed from the old state, then copied into it
inv_mix_columns(state) ==
    << Xor(Xor(Xor(gf_mul14(state[1]), gf_mul11(state[2])), gf_mul13(state[3])), gf_mul9(state[4])),
       Xor(Xor(Xor(gf_mul9(state[1]), gf_mul14(state[2])), gf_mul11(state[3])), gf_mul13(state[4])),
       Xor(Xor(Xor(gf_mul13(state[1]), gf_mul9(state[2])), gf_mul14(state[3])), gf_mul11(state[4])),
       Xor(Xor(Xor(gf_mul11(state[1]), gf_mul13(state[2])), gf_mul9(state[3])), gf_mul14(state[4])),
       Xor(Xor(Xor(gf_mul14(state[5]), gf_mul11(state[6])), gf_mul13(state[7])), gf_mul9(state[8])),
       Xor(Xor(Xor(gf_mul9(state[5]), gf_mul14(state[6])), gf_mul11(state[7])), gf_mul13(state[8])),
       Xor(Xor(Xor(gf_mul13(state[5]), gf_mul9(state[6])), gf_mul14(state[7])), gf_mul11(state[8])),
       Xor(Xor(Xor(gf_mul11(state[5]), gf_mul13(state[6])), gf_mul9(state[7])), gf_mul14(state[8])),
       Xor(Xor(Xor(gf_mul14(state[9]), gf_mul11(state[10])), gf_mul13(state[11])), gf_mul9(state[12])),
       Xor(Xor(Xor(gf_mul9(state[9]), gf_mul14(state[10])), gf_mul11(state[11])), gf_mul13(state[12])),
       Xor(Xor(Xor(gf_mul13(state[9]), gf_mul9(state[10])), gf_mul14(state[11])), gf_mul11(state[12])),
       Xor(Xor(Xor(gf_mul11(state[9]), gf_mul13(state[10])), gf_mul9(state[11])), gf_mul14(state[12])),
       Xor(Xor(Xor(gf_mul14(state[13]), gf_mul11(state[14])), gf_mul13(state[15])), gf_mul9(state[16])),
       Xor(Xor(Xor(gf_mul9(state[13]), gf_mul14(state[14])), gf_mul11(state[15])), gf_mul13(state[16])),
       Xor(Xor(Xor(gf_mul13(state[13]), gf_mul9(state[14])), gf_mul14(state[15])), gf_mul11(state[16])),
       Xor(Xor(Xor(gf_mul11(state[13]), gf_mul13(state[14])), gf_mul9(state[15])), gf_mul14(state[16])) >>

\* shift_rows with row 2 left as it is (a faulty variant)
shift_rows_row2_kept(state) ==
    LET r1 == [state EXCEPT ![2] = state[6], ![6] = state[10],
                            ![10] = state[14], ![14] = state[2]]
    IN  [r1 EXCEPT ![4] = r1[16], ![8] = r1[4],
                   ![12] = r1[8], ![16] = r1[12]]

\* shift_rows with row 3 rotated right by 3 instead of left (a faulty variant)
shift_rows_row3_right(state) ==
    LET r1 == [state EXCEPT ![2] = state[6], ![6] = state[10],
                            ![10] = state[14], ![14] = state[2]]
        r2 == [r1 EXCEPT ![3] = r1[11], ![7] = r1[15],
                         ![11] = r1[3], ![15] = r1[7]]
    IN  [r2 EXCEPT ![4] = r2[8], ![8] = r2[12],
                   ![12] = r2[16], ![16] = r2[4]]

\* shift_rows: row k (bytes k, k+4, k+8, k+12 of the source) rotated left by k
shift_rows(state) ==
    LET r1 == [state EXCEPT ![2] = state[6], ![6] = state[10],
                            ![10] = state[14], ![14] = state[2]]
        r2 == [r1 EXCEPT ![3] = r1[11], ![7] = r1[15],
                         ![11] = r1[3], ![15] = r1[7]]
    IN  [r2 EXCEPT ![4] = r2[16], ![8] = r2[4],
                   ![12] = r2[8], ![16] = r2[12]]

\* inv_shift_rows with row 1 rotated left, as shift_rows does (a faulty variant)
inv_shift_rows_row1_left(state) ==
    LET r1 == [state EXCEPT ![2] = state[6], ![6] = state[10],
                            ![10] = state[14], ![14] = state[2]]
        r2 == [r1 EXCEPT ![3] = r1[11], ![7] = r1[15],
                         ![11] = r1[3], ![15] = r1[7]]
    IN  [r2 EXCEPT ![4] = r2[8], ![8] = r2[12],
                   ![12] = r2[16], ![16] = r2[4]]

\* inv_shift_rows: row k rotated right by k
inv_shift_rows(state) ==
    LET r1 == [state EXCEPT ![2] = state[14], ![6] = state[2],
                            ![10] = state[6], ![14] = state[10]]
        r2 == [r1 EXCEPT ![3] = r1[11], ![7] = r1[15],
                         ![11] = r1[3], ![15] = r1[7]]
    IN  [r2 EXCEPT ![4] = r2[8], ![8] = r2[12],
                   ![12] = r2[16], ![16] = r2[4]]

\* ------------------------------------------------------------------------
\* Key schedule

\* copy_key that stops after the 16 bytes of the shortest key (a faulty variant)
RECURSIVE copy_key_first16(_, _, _)
copy_key_first16(key, expanded_key, i) ==
    IF i >= len(key) \/ i >= AES128_KEY_LEN THEN Ok(expanded_key)
    ELSE IF i >= len(expanded_key) THEN PANIC
    ELSE copy_key_first16(key, [expanded_key EXCEPT ![i + 1] = key[i + 1]], i + 1)

\* the loop `for i in 0..key.len() { expanded_key[i] = key[i] }` from index i on
RECURSIVE copy_key(_, _, _)
copy_key(key, expanded_key, i) ==
    IF i >= len(key) THEN Ok(expanded_key)
    ELSE IF i >= len(expanded_key) THEN PANIC
    ELSE copy_key(key, [expanded_key EXCEPT ![i + 1] = key[i + 1]], i + 1)

\* key_expansion_word without the SubWord branch of the 256-bit key (a faulty variant)
key_expansion_word_no_subword(expanded_key, i, nk) ==
    LET idx == (i - 1) * WORD_SIZE
        x   == (i - nk) * WORD_SIZE
        y   == i * WORD_SIZE
        n   == len(expanded_key)
        a   == expanded_key[idx + 0 + 1]
        b   == expanded_key[idx + 1 + 1]
        c   == expanded_key[idx + 2 + 1]
        d   == expanded_key[idx + 3 + 1]
        rcon == to_le_bytes(RCON[(i \div nk - 1) + 1])
        t   == IF i % nk = 0
                 THEN << Xor(sub_byte(b), rcon[1]), Xor(sub_byte(c), rcon[2]),
                         Xor(sub_byte(d), rcon[3]), Xor(sub_byte(a), rcon[4]) >>
               ELSE << a, b, c, d >>
    IN  IF idx < 0 \/ idx + 3 >= n THEN PANIC
        ELSE IF i % nk = 0 /\ (i \div nk - 1) \notin 0..(Len(RCON) - 1) THEN PANIC
        ELSE IF x < 0 \/ y + 3 >= n THEN PANIC
        ELSE Ok([expanded_key EXCEPT
                    ![y + 0 + 1] = Xor(expanded_key[x + 0 + 1], t[1]),
                    ![y + 1 + 1] = Xor(expanded_key[x + 1 + 1], t[2]),
                    ![y + 2 + 1] = Xor(expanded_key[x + 2 + 1], t[3]),
                    ![y + 3 + 1] = Xor(expanded_key[x + 3 + 1], t[4])])

\* key_expansion_word with the SubWord branch taken by 24-byte keys too
\* (a faulty variant)
key_expansion_word_subword_nk6(expanded_key, i, nk) ==
    LET idx == (i - 1) * WORD_SIZE
        x   == (i - nk) * WORD_SIZE
        y   == i * WORD_SIZE
        n   == len(expanded_key)
        a   == expanded_key[idx + 0 + 1]
        b   == expanded_key[idx + 1 + 1]
        c   == expanded_key[idx + 2 + 1]
        d   == expanded_key[idx + 3 + 1]
        rcon == to_le_bytes(RCON[(i \div nk - 1) + 1])
        t   == IF i % nk = 0
                 THEN << Xor(sub_byte(b), rcon[1]), Xor(sub_byte(c), rcon[2]),
                         Xor(sub_byte(d), rcon[3]), Xor(sub_byte(a), rcon[4]) >>
               ELSE IF nk >= 6 /\ i % nk = 4
                 THEN << sub_byte(a), sub_byte(b), sub_byte(c), sub_byte(d) >>
               ELSE << a, b, c, d >>
    IN  IF idx < 0 \/ idx + 3 >= n THEN PANIC
        ELSE IF i % nk = 0 /\ (i \div nk - 1) \notin 0..(Len(RCON) - 1) THEN PANIC
        ELSE IF x < 0 \/ y + 3 >= n THEN PANIC
        ELSE Ok([expanded_key EXCEPT
                    ![y + 0 + 1] = Xor(expanded_key[x + 0 + 1], t[1]),
                    ![y + 1 + 1] = Xor(expanded_key[x + 1 + 1], t[2]),
                    ![y + 2 + 1] = Xor(expanded_key[x + 2 + 1], t[3]),
                    ![y + 3 + 1] = Xor(expanded_key[x + 3 + 1], t[4])])

\* key_expansion_word that does not rotate the word before SubWord
\* (a faulty variant)
key_expansion_word_no_rotword(expanded_key, i, nk) ==
    LET idx == (i - 1) * WORD_SIZE
        x   == (i - nk) * WORD_SIZE
        y   == i * WORD_SIZE
        n   == len(expanded_key)
        a   == expanded_key[idx + 0 + 1]
        b   == expanded_key[idx + 1 + 1]
        c   == expanded_key[idx + 2 + 1]
        d   == expanded_key[idx + 3 + 1]
        rcon == to_le_bytes(RCON[(i \div nk - 1) + 1])
        t   == IF i % nk = 0
                 THEN << Xor(sub_byte(a), rcon[1]), Xor(sub_byte(b), rcon[2]),
                         Xor(sub_byte(c), rcon[3]), Xor(sub_byte(d), rcon[4]) >>
               ELSE IF nk > 6 /\ i % nk = 4
                 THEN << sub_byte(a), sub_byte(b), sub_byte(c), sub_byte(d) >>
               ELSE << a, b, c, d >>
    IN  IF idx < 0 \/ idx + 3 >= n THEN PANIC
        ELSE IF i % nk = 0 /\ (i \div nk - 1) \notin 0..(Len(RCON) - 1) THEN PANIC
        ELSE IF x < 0 \/ y + 3 >= n THEN PANIC
        ELSE Ok([expanded_key EXCEPT
                    ![y + 0 + 1] = Xor(expanded_key[x + 0 + 1], t[1]),
                    ![y + 1 + 1] = Xor(expanded_key[x + 1 + 1], t[2]),
                    ![y + 2 + 1] = Xor(expanded_key[x + 2 + 1], t[3]),
                    ![y + 3 + 1] = Xor(expanded_key[x + 3 + 1], t[4])])

\* key_expansion_word taking RCON[i/nk], the round constant after the one of the
\* source (a faulty variant)
key_expansion_word_rcon_one_on(expanded_key, i, nk) ==
    LET idx == (i - 1) * WORD_SIZE
        x   == (i - nk) * WORD_SIZE
        y   == i * WORD_SIZE
        n   == len(expanded_key)
        a   == expanded_key[idx + 0 + 1]
        b   == expanded_key[idx + 1 + 1]
        c   == expanded_key[idx + 2 + 1]
        d   == expanded_key[idx + 3 + 1]
        rcon == to_le_bytes(RCON[(i \div nk) + 1])
        t   == IF i % nk = 0
                 THEN << Xor(sub_byte(b), rcon[1]), Xor(sub_byte(c), rcon[2]),
                         Xor(sub_byte(d), rcon[3]), Xor(sub_byte(a), rcon[4]) >>
               ELSE IF nk > 6 /\ i % nk = 4
                 THEN << sub_byte(a), sub_byte(b), sub_byte(c), sub_byte(d) >>
               ELSE << a, b, c, d >>
    IN  IF idx < 0 \/ idx + 3 >= n THEN PANIC
        ELSE IF i % nk = 0 /\ (i \div nk) \notin 0..(Len(RCON) - 1) THEN PANIC
        ELSE IF x < 0 \/ y + 3 >= n THEN PANIC
        ELSE Ok([expanded_key EXCEPT
                    ![y + 0 + 1] = Xor(expanded_key[x + 0 + 1], t[1]),
                    ![y + 1 + 1] = Xor(expanded_key[x + 1 + 1], t[2]),
                    ![y + 2 + 1] = Xor(expanded_key[x + 2 + 1], t[3]),
                    ![y + 3 + 1] = Xor(expanded_key[x + 3 + 1], t[4])])

\* one iteration of the loop `for i in nk..(AES_NB * (nr + 1))`: writes w[i].
\* RCON[i/nk - 1] and every slice index are bounds-checked by the language.
key_expansion_word(expanded_key, i, nk) ==
    LET idx == (i - 1) * WORD_SIZE
        x   == (i - nk) * WORD_SIZE
        y   == i * WORD_SIZE
        n   == len(expanded_key)
        a   == expanded_key[idx + 0 + 1]
        b   == expanded_key[idx + 1 + 1]
        c   == expanded_key[idx + 2 + 1]
        d   == expanded_key[idx + 3 + 1]
        rcon == to_le_bytes(RCON[(i \div nk - 1) + 1])
        t   == IF i % nk = 0
                 THEN << Xor(sub_byte(b), rcon[1]), Xor(sub_byte(c), rcon[2]),
                         Xor(sub_byte(d), rcon[3]), Xor(sub_byte(a), rcon[4]) >>
               ELSE IF nk > 6 /\ i % nk = 4
                 THEN << sub_byte(a), sub_byte(b), sub_byte(c), sub_byte(d) >>
               ELSE << a, b, c, d >>
    IN  IF idx < 0 \/ idx + 3 >= n THEN PANIC
        ELSE IF i % nk = 0 /\ (i \div nk - 1) \notin 0..(Len(RCON) - 1) THEN PANIC
        ELSE IF x < 0 \/ y + 3 >= n THEN PANIC
        ELSE Ok([expanded_key EXCEPT
                    ![y + 0 + 1] = Xor(expanded_key[x + 0 + 1], t[1]),
                    ![y + 1 + 1] = Xor(expanded_key[x + 1 + 1], t[2]),
                    ![y + 2 + 1] = Xor(expanded_key[x + 2 + 1], t[3]),
                    ![y + 3 + 1] = Xor(expanded_key[x + 3 + 1], t[4])])

\* the loop `for i in nk..(AES_NB * (nr + 1))` from index i on
RECURSIVE key_expansion_loop(_, _, _, _)
key_expansion_loop(expanded_key, i, nk, nr) ==
    IF i >= AES_NB * (nr + 1) THEN Ok(expanded_key)
    ELSE LET r == key_expansion_word(expanded_key, i, nk)
         IN  IF r.panic THEN PANIC
             ELSE key_expansion_loop(r.val, i + 1, nk, nr)

\* key_expansion_enter without the assert_eq! on the buffer length (a faulty variant)
key_expansion_enter_any_buffer(key, expanded_key) ==
    IF ~(len(key) = AES128_KEY_LEN \/ len(key) = AES192_KEY_LEN
                                   \/ len(key) = AES256_KEY_LEN)
      THEN PANIC
    ELSE
      LET nk == len(key) \div WORD_SIZE
          nr == CASE len(key) = 16 -> 10
                  [] len(key) = 24 -> 12
                  [] len(key) = 32 -> 14
          r  == copy_key(key, expanded_key, 0)
      IN  IF r.panic THEN PANIC
          ELSE Ok([nk |-> nk, nr |-> nr, expanded_key |-> r.val])

\* key_expansion up to its word loop: the two asserts, Nk and Nr, and the copy
\* of the key into the buffer
key_expansion_enter(key, expanded_key) ==
    IF ~(len(key) = AES128_KEY_LEN \/ len(key) = AES192_KEY_LEN
                                   \/ len(key) = AES256_KEY_LEN)
      THEN PANIC
    ELSE
      LET nk == len(key) \div WORD_SIZE
          nr == CASE len(key) = 16 -> 10
                  [] len(key) = 24 -> 12
                  [] len(key) = 32 -> 14
          r  == copy_key(key, expanded_key, 0)
      IN  IF len(expanded_key) # (nr + 1) * AES_BLOCK_LEN THEN PANIC
          ELSE IF r.panic THEN PANIC
          ELSE Ok([nk |-> nk, nr |-> nr, expanded_key |-> r.val])

\* key_expansion(key, expanded_key): the buffer as the call leaves it, or a panic
key_expansion(key, expanded_key) ==
    LET e == key_expansion_enter(key, expanded_key)
    IN  IF e.panic THEN PANIC
        ELSE key_expansion_loop(e.val.expanded_key, e.val.nk, e.val.nk, e.val.nr)

\* ------------------------------------------------------------------------
\* Round engine

\* add_round_key with the round as a byte offset, not a block offset
\* (a faulty variant)
add_round_key_byte_offset(state, rounds_key, round, dbg) ==
    LET o == round
    IN  IF dbg /\ ~(len(rounds_key) >= round * AES_BLOCK_LEN) THEN PANIC
        ELSE IF (AES_BLOCK_LEN - 1) + o >= len(rounds_key) THEN PANIC
        ELSE Ok([i \in 1..AES_BLOCK_LEN |-> Xor(state[i], rounds_key[o + i])])

\* add_round_key reading the round key after the one asked for (a faulty variant)
add_round_key_next_round(state, rounds_key, round, dbg) ==
    LET o == (round + 1) * AES_BLOCK_LEN
    IN  IF dbg /\ ~(len(rounds_key) >= round * AES_BLOCK_LEN) THEN PANIC
        ELSE IF (AES_BLOCK_LEN - 1) + o >= len(rounds_key) THEN PANIC
        ELSE Ok([i \in 1..AES_BLOCK_LEN |-> Xor(state[i], rounds_key[o + i])])

\* add_round_key(state, rounds_key, round): state[i] ^= rounds_key[i + round * 16]
\* for i in 0..AES_BLOCK_LEN, the loop written out.  debug_assert! is compiled
\* only in a build with debug assertions (dbg); the slice index is
\* bounds-checked in every build, so the loop panics at the first index that
\* is past the end of rounds_key.
add_round_key(state, rounds_key, round, dbg) ==
    LET o == round * AES_BLOCK_LEN
    IN  IF dbg /\ ~(len(rounds_key) >= round * AES_BLOCK_LEN) THEN PANIC
        ELSE IF (AES_BLOCK_LEN - 1) + o >= len(rounds_key) THEN PANIC
        ELSE Ok(<< Xor(state[1], rounds_key[o + 1]),
                   Xor(state[2], rounds_key[o + 2]),
                   Xor(state[3], rounds_key[o + 3]),
                   Xor(state[4], rounds_key[o + 4]),
                   Xor(state[5], rounds_key[o + 5]),
                   Xor(state[6], rounds_key[o + 6]),
                   Xor(state[7], rounds_key[o + 7]),
                   Xor(state[8], rounds_key[o + 8]),
                   Xor(state[9], rounds_key[o + 9]),
                   Xor(state[10], rounds_key[o + 10]),
                   Xor(state[11], rounds_key[o + 11]),
                   Xor(state[12], rounds_key[o + 12]),
                   Xor(state[13], rounds_key[o + 13]),
                   Xor(state[14], rounds_key[o + 14]),
                   Xor(state[15], rounds_key[o + 15]),
                   Xor(state[16], rounds_key[o + 16]) >>)

\* the loop `for i in 1..nr { sub_bytes; shift_rows; mix_columns; add_round_key(i) }`
RECURSIVE encrypt_rounds(_, _, _, _, _)
encrypt_rounds(state, expanded_key, i, nr, dbg) ==
    IF i >= nr THEN Ok(state)
    ELSE LET r == add_round_key(mix_columns(shift_rows(sub_bytes(state))),
                                expanded_key, i, dbg)
         IN  IF r.panic THEN PANIC
             ELSE encrypt_rounds(r.val, expanded_key, i + 1, nr, dbg)

\* encrypt with MixColumns in the final round too (a faulty variant)
encrypt_final_mix(state, expanded_key, nr, dbg) ==
    IF dbg /\ ~(nr = AES128_NR \/ nr = AES192_NR \/ nr = AES256_NR) THEN PANIC
    ELSE LET r0 == add_round_key(state, expanded_key, 0, dbg)
             r1 == encrypt_rounds(r0.val, expanded_key, 1, nr, dbg)
         IN  IF r0.panic THEN PANIC
             ELSE IF r1.panic THEN PANIC
             ELSE add_round_key(mix_columns(shift_rows(sub_bytes(r1.val))),
                                expanded_key, nr, dbg)

\* encrypt(state, expanded_key, nr): the state as the call leaves it, or a panic
encrypt(state, expanded_key, nr, dbg) ==
    IF dbg /\ ~(nr = AES128_NR \/ nr = AES192_NR \/ nr = AES256_NR) THEN PANIC
    ELSE LET r0 == add_round_key(state, expanded_key, 0, dbg)
             r1 == encrypt_rounds(r0.val, expanded_key, 1, nr, dbg)
         IN  IF r0.panic THEN PANIC
             ELSE IF r1.panic THEN PANIC
             ELSE add_round_key(shift_rows(sub_bytes(r1.val)), expanded_key, nr, dbg)

\* the loop `for i in 1..nr { add_round_key(nr - i); inv_mix_columns;
\* inv_shift_rows; inv_sub_bytes }`
RECURSIVE decrypt_rounds(_, _, _, _, _)
decrypt_rounds(state, expanded_key, i, nr, dbg) ==
    IF i >= nr THEN Ok(state)
    ELSE LET r == add_round_key(state, expanded_key, nr - i, dbg)
         IN  IF r.panic THEN PANIC
             ELSE decrypt_rounds(inv_sub_bytes(inv_shift_rows(inv_mix_columns(r.val))),
                                 expanded_key, i + 1, nr, dbg)

\* decrypt(state, expanded_key, nr): the state as the call leaves it, or a panic
decrypt(state, expanded_key, nr, dbg) ==
    IF dbg /\ ~(nr = AES128_NR \/ nr = AES192_NR \/ nr = AES256_NR) THEN PANIC
    ELSE LET r0 == add_round_key(state, expanded_key, nr, dbg)
             r1 == decrypt_rounds(inv_sub_bytes(inv_shift_rows(r0.val)),
                                  expanded_key, 1, nr, dbg)
         IN  IF r0.panic THEN PANIC
             ELSE IF r1.panic THEN PANIC
             ELSE add_round_key(r1.val, expanded_key, 0, dbg)

\* ------------------------------------------------------------------------
\* Facade generated by impl_aes!($name, $nr, $name_s): an instance is its
\* type's round count $nr and its field ek

\* $name::new that cuts or zero-pads the key to its variant's length (a faulty variant)
ExpandedKey_new_coerce(nr, key) ==
    LET n == (nr - 6) * WORD_SIZE
        k == [i \in 1..n |-> IF i <= len(key) THEN key[i] ELSE 0]
        r == key_expansion(k, zeroed((nr + 1) * AES_BLOCK_LEN))
    IN  IF r.panic THEN PANIC ELSE Ok([nr |-> nr, ek |-> r.val])

\* $name::new(key)
ExpandedKey_new(nr, key) ==
    LET r == key_expansion(key, zeroed((nr + 1) * AES_BLOCK_LEN))
    IN  IF r.panic THEN PANIC ELSE Ok([nr |-> nr, ek |-> r.val])

\* $name::encrypt(&self, input)
ExpandedKey_encrypt(self, input, dbg) ==
    IF len(input) # 16 THEN PANIC
    ELSE encrypt(input, self.ek, self.nr, dbg)

\* $name::decrypt(&self, input)
ExpandedKey_decrypt(self, input, dbg) ==
    IF len(input) # 16 THEN PANIC
    ELSE decrypt(input, self.ek, self.nr, dbg)

\* ------------------------------------------------------------------------
\* RC2 (RFC 2268) of src/rc2.rs: the key expansion, the four round
\* functions on the words r[0..3] (u16), and Rc2::encrypt / Rc2::decrypt
\* taken one round at a time

\* PI_TABLE: rc2.rs lines 16..49; entry x of the source array is PI_TABLE[x + 1]
PI_TABLE ==
    << 217, 120, 249, 196,  25, 221, 181, 237,  40, 233, 253, 121,  74, 160, 216, 157,
       198, 126,  55, 131,  43, 118,  83, 142,  98,  76, 100, 136,  68, 139, 251, 162,
        23, 154,  89, 245, 135, 179,  79,  19,  97,  69, 109, 141,   9, 129, 125,  50,
       189, 143,  64, 235, 134, 183, 123,  11, 240, 149,  33,  34,  92, 107,  78, 130,
        84, 214, 101, 147, 206,  96, 178,  28, 115,  86, 192,  20, 167, 140, 241, 220,
        18, 117, 202,  31,  59, 190, 228, 209,  66,  61, 212,  48, 163,  60, 182,  38,
       111, 191,  14, 218,  70, 105,   7,  87,  39, 242,  29, 155, 188, 148,  67,   3,
       248,  17, 199, 246, 144, 239,  62, 231,   6, 195, 213,  47, 200, 102,  30, 215,
         8, 232, 234, 222, 128,  82, 238, 247, 132, 170, 114, 172,  53,  77, 106,  42,
       150,  26, 210, 113,  90,  21,  73, 116,  75, 159, 208,  94,   4,  24, 164, 236,
       194, 224,  65, 110,  15,  81, 203, 204,  36, 145, 175,  80, 161, 244, 112,  57,
       153, 124,  58, 133,  35, 184, 180, 122, 252,   2,  54,  91,  37,  85, 151,  49,
        45,  93, 250, 152, 227, 138, 146, 174,   5, 223,  41,  16, 103, 108, 186, 201,
       211,   0, 230, 207, 225, 158, 168,  44,  99,  22,   1,  63,  88, 226, 137, 169,
        13,  56,  52,  27, 171,  51, 255, 176, 187,  72,  12,  95, 185, 177, 205,  46,
       197, 243, 219,  71, 229, 165, 156, 119,  10, 166,  32, 104, 254, 127, 193, 173 >>

\* a & b on u8: the bits that a + b counts twice and a ^ b not at all
And8(a, b) == (a + b - Xor(a, b)) \div 2

\* a & b on u16
And16(a, b) == 256 * And8(a \div 256, b \div 256) + And8(a % 256, b % 256)

\* !a on u16
Not16(a) == 65535 - a

\* a | b on u16
Or16(a, b) == a + b - And16(a, b)

\* (x << s) | (x >> (16 - s)) on u16: << drops the bits above bit 15
Rol16(x, s) == Or16((x * (2 ^ s)) % 65536, x \div (2 ^ (16 - s)))

\* wrapping_add and wrapping_sub on u16
wrapping_add(a, b) == (a + b) % 65536
wrapping_sub(a, b) == (a + 65536 - b) % 65536

\* usize::MAX, the value j.wrapping_sub(1) leaves for j = 0: a number that TLC's
\* integers cannot hold and that, like this one, is no index of any array
USIZE_MAX == -1

\* for i in lo..hi { buf[i] = PI_TABLE[(buf[i - 1] + buf[i - key_len]) & 0xff] },
\* the range taken in two halves, the lower one first
RECURSIVE rc2_fill_forward(_, _, _, _)
rc2_fill_forward(buf, lo, hi, key_len) ==
    IF lo >= hi THEN buf
    ELSE IF hi - lo = 1
      THEN LET pos == (buf[lo] + buf[lo - key_len + 1]) % 256
           IN  [buf EXCEPT ![lo + 1] = PI_TABLE[pos + 1]]
    ELSE LET mid == (lo + hi) \div 2
             b   == rc2_fill_forward(buf, lo, mid, key_len)
         IN  IF len(b) = 128 THEN rc2_fill_forward(b, mid, hi, key_len) ELSE b

\* for i in (lo..hi).rev() { buf[i] = PI_TABLE[buf[i + 1] ^ buf[i + t8]] },
\* the range taken in two halves, the upper one first
RECURSIVE rc2_fill_backward(_, _, _, _)
rc2_fill_backward(buf, lo, hi, t8) ==
    IF lo >= hi THEN buf
    ELSE IF hi - lo = 1
      THEN LET pos == Xor(buf[lo + 2], buf[lo + t8 + 1])
           IN  [buf EXCEPT ![lo + 1] = PI_TABLE[pos + 1]]
    ELSE LET mid == (lo + hi) \div 2
             b   == rc2_fill_backward(buf, mid, hi, t8)
         IN  IF len(b) = 128 THEN rc2_fill_backward(b, lo, mid, t8) ELSE b

\* key_expansion(key) -> [u16; 64]
rc2_key_expansion(key) ==
    LET key_len == len(key)
        t1      == len(key) * 8
    IN  IF ~(t1 >= 1 /\ t1 <= 128) THEN PANIC
        ELSE LET t8   == (t1 + 7) \div 8
                 tm   == 255 % (2 ^ (8 + t1 - 8 * t8))
                 buf0 == SubSeq(key, 1, key_len) \o zeroed(128 - key_len)
                 buf1 == rc2_fill_forward(buf0, key_len, 128, key_len)
                 buf2 == [buf1 EXCEPT ![128 - t8 + 1] =
                             PI_TABLE[And8(buf1[128 - t8 + 1], tm % 256) + 1]]
                 buf3 == rc2_fill_backward(buf2, 0, 128 - t8, t8)
             IN  Ok(SubSeq([i \in 1..64 |-> buf3[2 * i] * 256 + buf3[2 * i - 1]], 1, 64))

\* mix(ek, r, j): the four words in turn, each with the subkey ek[*j] and
\* `*j += 1`; used lists the indices of ek in the order they are read
mix(ek, r, j) ==
    IF ~(j >= 0 /\ j + 3 < 64) THEN PANIC
    ELSE LET r0 == Rol16(wrapping_add(wrapping_add(wrapping_add(r[1], ek[j + 1]),
                             And16(r[4], r[3])), And16(Not16(r[4]), r[2])), 1)
             r1 == Rol16(wrapping_add(wrapping_add(wrapping_add(r[2], ek[j + 2]),
                             And16(r0, r[4])), And16(Not16(r0), r[3])), 2)
             r2 == Rol16(wrapping_add(wrapping_add(wrapping_add(r[3], ek[j + 3]),
                             And16(r1, r0)), And16(Not16(r1), r[4])), 3)
             r3 == Rol16(wrapping_add(wrapping_add(wrapping_add(r[4], ek[j + 4]),
                             And16(r2, r1)), And16(Not16(r2), r0)), 5)
         IN  Ok([r |-> << r0, r1, r2, r3 >>, j |-> j + 4,
                 used |-> << j, j + 1, j + 2, j + 3 >>])

\* reverse_mix(ek, r, j): r[3] down to r[0], each with ek[*j]; `*j -= 1` after
\* the first three (with *j = 0 it panics in a debug build and leaves
\* usize::MAX, which indexes no subkey, in a release build) and
\* `*j = j.wrapping_sub(1)` after the last
reverse_mix(ek, r, j) ==
    IF ~(j - 3 >= 0 /\ j < 64) THEN PANIC
    ELSE LET t3 == Rol16(r[4], 11)
             r3 == wrapping_sub(wrapping_sub(wrapping_sub(t3, ek[j + 1]),
                       And16(r[3], r[2])), And16(Not16(r[3]), r[1]))
             t2 == Rol16(r[3], 13)
             r2 == wrapping_sub(wrapping_sub(wrapping_sub(t2, ek[j]),
                       And16(r[2], r[1])), And16(Not16(r[2]), r3))
             t1 == Rol16(r[2], 14)
             r1 == wrapping_sub(wrapping_sub(wrapping_sub(t1, ek[j - 1]),
                       And16(r[1], r3)), And16(Not16(r[1]), r2))
             t0 == Rol16(r[1], 15)
             r0 == wrapping_sub(wrapping_sub(wrapping_sub(t0, ek[j - 2]),
                       And16(r3, r2)), And16(Not16(r3), r1))
         IN  Ok([r |-> << r0, r1, r2, r3 >>,
                 j |-> IF j - 3 = 0 THEN USIZE_MAX ELSE j - 4,
                 used |-> << j, j - 1, j - 2, j - 3 >>])

\* mash(ek, r): each word takes the subkey that the low six bits of the word
\* before it select
mash(ek, r) ==
    LET r0 == wrapping_add(r[1], ek[(r[4] % 64) + 1])
        r1 == wrapping_add(r[2], ek[(r0 % 64) + 1])
        r2 == wrapping_add(r[3], ek[(r1 % 64) + 1])
        r3 == wrapping_add(r[4], ek[(r2 % 64) + 1])
    IN  [r |-> << r0, r1, r2, r3 >>,
         used |-> << r[4] % 64, r0 % 64, r1 % 64, r2 % 64 >>]

\* reverse_mash(ek, r)
reverse_mash(ek, r) ==
    LET r3 == wrapping_sub(r[4], ek[(r[3] % 64) + 1])
        r2 == wrapping_sub(r[3], ek[(r[2] % 64) + 1])
        r1 == wrapping_sub(r[2], ek[(r[1] % 64) + 1])
        r0 == wrapping_sub(r[1], ek[(r3 % 64) + 1])
    IN  [r |-> << r0, r1, r2, r3 >>,
         used |-> << r[3] % 64, r[2] % 64, r[1] % 64, r3 % 64 >>]

\* ------------------------------------------------------------------------
\* Bounds of the model

\* how many times in a row a caller passes the block the last call returned
MaxChain == 1

\* the threads that share one cipher instance
NumThreads == 2

\* ------------------------------------------------------------------------
\* State

VARIABLES
    debug_build,    \* the build compiles debug_assert! (debug) or not (release)
    key,            \* the key bytes the caller holds
    inst,           \* inst[id]: the cipher instance the caller holds in slot id
    prev,           \* the call before the last one
    last,           \* the last call: its arguments and how it ended
    th,             \* th[t]: the call thread t is making on the shared instance
    ks,             \* a run of key_expansion on a caller's buffer, word by word
    eng,            \* a run of the round engine on a caller's state, buffer and nr
    fn,             \* the transforms a caller has applied to a state, in order
    rc2             \* an Rc2 instance, the block its caller holds and the call in progress

vars == << debug_build, key, inst, prev, last, th, ks, eng, fn, rc2 >>

InstIds == {1, 2}

\* the round counts the three impl_aes! invocations bind (generic.rs lines 94..96)
Variants == {AES128_NR, AES192_NR, AES256_NR}

KeyLens == {0, 15, 16, 17, 24, 31, 32, 33}
Keys == {SeqKey(n) : n \in KeyLens} \cup {TestKey128}
Blocks == {Block0011, Block3243}

Threads == 1..NumThreads

\* a thread that has made no call yet
IdleThread == [pc |-> "idle", op |-> "none", input |-> << >>, state |-> << >>,
               i |-> 0, out |-> << >>,
               alone |-> [ended |-> "none", out |-> << >>]]

\* no run of key_expansion
NoKs == [pc |-> "none", key |-> << >>, expanded_key |-> << >>, i |-> 0,
         nk |-> 0, nr |-> 0]

\* the round count the key schedule derives from a key length (0: no variant)
NrOfKeyLen(n) ==
    CASE n = AES128_KEY_LEN -> AES128_NR
      [] n = AES192_KEY_LEN -> AES192_NR
      [] n = AES256_KEY_LEN -> AES256_NR
      [] OTHER -> 0

\* no run of the round engine
NoEng == [pc |-> "none", op |-> "none", input |-> << >>, state |-> << >>,
          expanded_key |-> << >>, nr |-> 0, i |-> 0, trace |-> << >>]

\* no Rc2 instance
NoRc2 == [pc |-> "none", ek |-> << >>, block |-> << >>, plain |-> << >>,
          r |-> << >>, j |-> 0, i |-> 0, calls |-> << >>, trace |-> << >>]

NoInst == [live |-> FALSE, self |-> [nr |-> 0, ek |-> << >>]]
NoCall == [op |-> "none", id |-> 0, nr |-> 0, input |-> << >>, chain |-> 0,
           ended |-> "none", out |-> << >>]

\* how a call ended: none of new, encrypt and decrypt returns a Result, so a
\* call either returns its value or panics
Ended(r) == IF r.panic THEN "panicked" ELSE "returned"

\* the record of a call: op on slot id (round count nr) with input, ended as r
Returned(op, id, nr, input, chain, r) ==
    [op |-> op, id |-> id, nr |-> nr, input |-> input, chain |-> chain,
     ended |-> Ended(r), out |-> IF r.panic THEN << >> ELSE r.val]

\* the blocks a caller passes, each with its place in a chain of calls: a block
\* of its own (0), or the block the last call returned
Inputs ==
    {<< b, 0 >> : b \in Blocks}
      \cup (IF last.op \in {"encrypt", "decrypt"} /\ last.ended = "returned"
                                                  /\ last.chain < MaxChain
              THEN {<< last.out, last.chain + 1 >>} ELSE {})

Init ==
    /\ debug_build \in BOOLEAN
    /\ key \in Keys
    /\ inst = [id \in InstIds |-> NoInst]
    /\ prev = NoCall
    /\ last = NoCall
    /\ th = [t \in Threads |-> IdleThread]
    /\ ks = NoKs
    /\ eng = NoEng
    /\ fn = << >>
    /\ rc2 = NoRc2

\* let c = $name::new(&key) with $nr = nr, kept in the first free slot
New(id, nr) ==
    /\ ~inst[id].live
    /\ \A j \in InstIds : j < id => inst[j].live
    /\ LET r == ExpandedKey_new(nr, key)
       IN  /\ inst' = IF r.panic THEN inst
                      ELSE [inst EXCEPT ![id] = [live |-> TRUE, self |-> r.val]]
           /\ last' = [op |-> "new", id |-> id, nr |-> nr, input |-> key,
                       chain |-> 0, ended |-> Ended(r), out |-> << >>]
    /\ prev' = last
    /\ UNCHANGED << debug_build, key, th, ks, eng, fn, rc2 >>

\* encrypt that keeps its output in the first round key of self.ek (a faulty variant)
Encrypt_scratch_in_ek(id, input, chain) ==
    /\ inst[id].live
    /\ LET r == ExpandedKey_encrypt(inst[id].self, input, debug_build)
       IN  /\ last' = Returned("encrypt", id, inst[id].self.nr, input, chain, r)
           /\ inst' = IF r.panic THEN inst
                      ELSE [inst EXCEPT ![id].self.ek =
                               [j \in 1..len(inst[id].self.ek) |->
                                   IF j <= AES_BLOCK_LEN THEN r.val[j]
                                   ELSE inst[id].self.ek[j]]]
    /\ prev' = last
    /\ UNCHANGED << debug_build, key, th, ks, eng, fn, rc2 >>

\* inst[id].encrypt(&input): &self is a shared borrow, the state is a local
Encrypt(id, input, chain) ==
    /\ inst[id].live
    /\ last' = Returned("encrypt", id, inst[id].self.nr, input, chain,
                        ExpandedKey_encrypt(inst[id].self, input, debug_build))
    /\ prev' = last
    /\ UNCHANGED << debug_build, key, inst, th, ks, eng, fn, rc2 >>

\* decrypt that turns self.ek into the schedule of the inverse cipher, last
\* round key first (a faulty variant)
Decrypt_reverses_ek(id, input, chain) ==
    /\ inst[id].live
    /\ LET r == ExpandedKey_decrypt(inst[id].self, input, debug_build)
           n == len(inst[id].self.ek)
       IN  /\ last' = Returned("decrypt", id, inst[id].self.nr, input, chain, r)
           /\ inst' = IF r.panic THEN inst
                      ELSE [inst EXCEPT ![id].self.ek =
                               [j \in 1..n |->
                                   inst[id].self.ek[n - AES_BLOCK_LEN
                                       - ((j - 1) \div AES_BLOCK_LEN) * AES_BLOCK_LEN
                                       + ((j - 1) % AES_BLOCK_LEN) + 1]]]
    /\ prev' = last
    /\ UNCHANGED << debug_build, key, th, ks, eng, fn, rc2 >>

\* inst[id].decrypt(&input)
Decrypt(id, input, chain) ==
    /\ inst[id].live
    /\ last' = Returned("decrypt", id, inst[id].self.nr, input, chain,
                        ExpandedKey_decrypt(inst[id].self, input, debug_build))
    /\ prev' = last
    /\ UNCHANGED << debug_build, key, inst, th, ks, eng, fn, rc2 >>

Next ==
    \/ \E id \in InstIds, nr \in Variants : New(id, nr)
    \/ \E id \in InstIds, in \in Inputs : Encrypt(id, in[1], in[2])
    \/ \E id \in InstIds, in \in Inputs : Decrypt(id, in[1], in[2])


Spec == Init /\ [][Next]_vars

\* ------------------------------------------------------------------------
\* Threads sharing one instance: each call of the facade taken one transform
\* at a time.  c is the call of one thread: its position pc, its local state
\* (`let mut state`) and its loop variable i.

\* encrypt_step taking the round keys of the loop from the last one down
\* (a faulty variant)
encrypt_step_keys_reversed(c, expanded_key, nr, dbg) ==
    LET ark(round) == add_round_key(c.state, expanded_key, round, dbg)
        to(r, pc, i) == IF r.panic THEN [c EXCEPT !.pc = "panicked"]
                        ELSE [c EXCEPT !.pc = pc, !.state = r.val, !.i = i]
    IN  CASE c.pc = "e_ark0" ->
               IF dbg /\ ~(nr = AES128_NR \/ nr = AES192_NR \/ nr = AES256_NR)
                 THEN [c EXCEPT !.pc = "panicked"]
               ELSE to(ark(0), IF 1 < nr THEN "e_sub" ELSE "e_fsub", 1)
          [] c.pc = "e_sub"    -> to(Ok(sub_bytes(c.state)), "e_shift", c.i)
          [] c.pc = "e_shift"  -> to(Ok(shift_rows(c.state)), "e_mix", c.i)
          [] c.pc = "e_mix"    -> to(Ok(mix_columns(c.state)), "e_ark", c.i)
          [] c.pc = "e_ark"    ->
               to(ark(nr - c.i), IF c.i + 1 < nr THEN "e_sub" ELSE "e_fsub", c.i + 1)
          [] c.pc = "e_fsub"   -> to(Ok(sub_bytes(c.state)), "e_fshift", c.i)
          [] c.pc = "e_fshift" -> to(Ok(shift_rows(c.state)), "e_fark", c.i)
          [] c.pc = "e_fark"   -> to(ark(nr), "ret", c.i)

\* one step of encrypt(&mut state, expanded_key, nr)
encrypt_step(c, expanded_key, nr, dbg) ==
    LET ark(round) == add_round_key(c.state, expanded_key, round, dbg)
        to(r, pc, i) == IF r.panic THEN [c EXCEPT !.pc = "panicked"]
                        ELSE [c EXCEPT !.pc = pc, !.state = r.val, !.i = i]
    IN  CASE c.pc = "e_ark0" ->
               IF dbg /\ ~(nr = AES128_NR \/ nr = AES192_NR \/ nr = AES256_NR)
                 THEN [c EXCEPT !.pc = "panicked"]
               ELSE to(ark(0), IF 1 < nr THEN "e_sub" ELSE "e_fsub", 1)
          [] c.pc = "e_sub"    -> to(Ok(sub_bytes(c.state)), "e_shift", c.i)
          [] c.pc = "e_shift"  -> to(Ok(shift_rows(c.state)), "e_mix", c.i)
          [] c.pc = "e_mix"    -> to(Ok(mix_columns(c.state)), "e_ark", c.i)
          [] c.pc = "e_ark"    ->
               to(ark(c.i), IF c.i + 1 < nr THEN "e_sub" ELSE "e_fsub", c.i + 1)
          [] c.pc = "e_fsub"   -> to(Ok(sub_bytes(c.state)), "e_fshift", c.i)
          [] c.pc = "e_fshift" -> to(Ok(shift_rows(c.state)), "e_fark", c.i)
          [] c.pc = "e_fark"   -> to(ark(nr), "ret", c.i)

\* decrypt_step with inv_mix_columns before add_round_key in the loop
\* (a faulty variant)
decrypt_step_mix_first(c, expanded_key, nr, dbg) ==
    LET ark(round) == add_round_key(c.state, expanded_key, round, dbg)
        to(r, pc, i) == IF r.panic THEN [c EXCEPT !.pc = "panicked"]
                        ELSE [c EXCEPT !.pc = pc, !.state = r.val, !.i = i]
    IN  CASE c.pc = "d_arkn" ->
               IF dbg /\ ~(nr = AES128_NR \/ nr = AES192_NR \/ nr = AES256_NR)
                 THEN [c EXCEPT !.pc = "panicked"]
               ELSE to(ark(nr), "d_ishift0", 0)
          [] c.pc = "d_ishift0" -> to(Ok(inv_shift_rows(c.state)), "d_isub0", 0)
          [] c.pc = "d_isub0"   ->
               to(Ok(inv_sub_bytes(c.state)), IF 1 < nr THEN "d_ark" ELSE "d_ark0", 1)
          [] c.pc = "d_ark"     -> to(Ok(inv_mix_columns(c.state)), "d_imix", c.i)
          [] c.pc = "d_imix"    -> to(ark(nr - c.i), "d_ishift", c.i)
          [] c.pc = "d_ishift"  -> to(Ok(inv_shift_rows(c.state)), "d_isub", c.i)
          [] c.pc = "d_isub"    ->
               to(Ok(inv_sub_bytes(c.state)),
                  IF c.i + 1 < nr THEN "d_ark" ELSE "d_ark0", c.i + 1)
          [] c.pc = "d_ark0"    -> to(ark(0), "ret", c.i)

\* one step of decrypt(&mut state, expanded_key, nr)
decrypt_step(c, expanded_key, nr, dbg) ==
    LET ark(round) == add_round_key(c.state, expanded_key, round, dbg)
        to(r, pc, i) == IF r.panic THEN [c EXCEPT !.pc = "panicked"]
                        ELSE [c EXCEPT !.pc = pc, !.state = r.val, !.i = i]
    IN  CASE c.pc = "d_arkn" ->
               IF dbg /\ ~(nr = AES128_NR \/ nr = AES192_NR \/ nr = AES256_NR)
                 THEN [c EXCEPT !.pc = "panicked"]
               ELSE to(ark(nr), "d_ishift0", 0)
          [] c.pc = "d_ishift0" -> to(Ok(inv_shift_rows(c.state)), "d_isub0", 0)
          [] c.pc = "d_isub0"   ->
               to(Ok(inv_sub_bytes(c.state)), IF 1 < nr THEN "d_ark" ELSE "d_ark0", 1)
          [] c.pc = "d_ark"     -> to(ark(nr - c.i), "d_imix", c.i)
          [] c.pc = "d_imix"    -> to(Ok(inv_mix_columns(c.state)), "d_ishift", c.i)
          [] c.pc = "d_ishift"  -> to(Ok(inv_shift_rows(c.state)), "d_isub", c.i)
          [] c.pc = "d_isub"    ->
               to(Ok(inv_sub_bytes(c.state)),
                  IF c.i + 1 < nr THEN "d_ark" ELSE "d_ark0", c.i + 1)
          [] c.pc = "d_ark0"    -> to(ark(0), "ret", c.i)

EncryptPcs == {"e_ark0", "e_sub", "e_shift", "e_mix", "e_ark",
               "e_fsub", "e_fshift", "e_fark"}
DecryptPcs == {"d_arkn", "d_ishift0", "d_isub0", "d_ark", "d_imix",
               "d_ishift", "d_isub", "d_ark0"}

\* the shared instance
Shared == inst[1].self

ThreadKeys == {SeqKey(16)}
ThreadBlocks == {Block0011}

\* the state after construction: one instance, built from the key, shared by
\* the threads
ThreadInit ==
    /\ debug_build \in BOOLEAN
    /\ key \in ThreadKeys
    /\ \E nr \in Variants :
          LET r == ExpandedKey_new(nr, key)
          IN  /\ ~r.panic
              /\ inst = [id \in InstIds |->
                            IF id = 1 THEN [live |-> TRUE, self |-> r.val]
                            ELSE NoInst]
    /\ prev = NoCall
    /\ last = NoCall
    /\ th = [t \in Threads |-> IdleThread]
    /\ ks = NoKs
    /\ eng = NoEng
    /\ fn = << >>
    /\ rc2 = NoRc2

\* how the call op(input) on the shared instance ends when no other call runs
Alone(op, input) ==
    LET r == IF op = "encrypt"
               THEN ExpandedKey_encrypt(Shared, input, debug_build)
             ELSE ExpandedKey_decrypt(Shared, input, debug_build)
    IN  [ended |-> Ended(r), out |-> IF r.panic THEN << >> ELSE r.val]

\* thread t enters Shared.encrypt(&input) or Shared.decrypt(&input):
\* `let mut state = [0u8; 16]; state.copy_from_slice(input);`
\* (alone is not program state: it records what the same call returns when it
\* runs with no other call in progress)
ThreadCall(t, op, input) ==
    /\ th[t].pc = "idle"
    /\ th' = [th EXCEPT ![t] =
                 [pc |-> IF len(input) # 16 THEN "panicked"
                         ELSE IF op = "encrypt" THEN "e_ark0" ELSE "d_arkn",
                  op |-> op, input |-> input, state |-> input, i |-> 0,
                  out |-> << >>, alone |-> Alone(op, input)]]
    /\ UNCHANGED << debug_build, key, inst, prev, last, ks, eng, fn, rc2 >>

\* the calls keep their state in one buffer that all threads write (a faulty variant)
ThreadStep_one_buffer(t) ==
    /\ th[t].pc \in EncryptPcs \cup DecryptPcs
    /\ LET c == IF th[t].pc \in EncryptPcs
                  THEN encrypt_step(th[t], Shared.ek, Shared.nr, debug_build)
                ELSE decrypt_step(th[t], Shared.ek, Shared.nr, debug_build)
       IN  th' = [u \in Threads |->
                    IF u = t THEN c
                    ELSE IF th[u].pc \in EncryptPcs \cup DecryptPcs \cup {"ret"}
                      THEN [th[u] EXCEPT !.state = c.state]
                    ELSE th[u]]
    /\ UNCHANGED << debug_build, key, inst, prev, last, ks, eng, fn, rc2 >>

\* thread t takes the next step of its call; it reads Shared.ek and writes its
\* own state
ThreadStep(t) ==
    /\ th[t].pc \in EncryptPcs \cup DecryptPcs
    /\ th' = [th EXCEPT ![t] =
                 IF th[t].pc \in EncryptPcs
                   THEN encrypt_step(th[t], Shared.ek, Shared.nr, debug_build)
                 ELSE decrypt_step(th[t], Shared.ek, Shared.nr, debug_build)]
    /\ UNCHANGED << debug_build, key, inst, prev, last, ks, eng, fn, rc2 >>

\* thread t's call returns its state
ThreadReturn(t) ==
    /\ th[t].pc = "ret"
    /\ th' = [th EXCEPT ![t] = [th[t] EXCEPT !.pc = "done", !.out = th[t].state]]
    /\ UNCHANGED << debug_build, key, inst, prev, last, ks, eng, fn, rc2 >>

ThreadNext ==
    \/ \E t \in Threads, op \in {"encrypt", "decrypt"}, input \in ThreadBlocks :
          ThreadCall(t, op, input)
    \/ \E t \in Threads : ThreadStep(t)
    \/ \E t \in Threads : ThreadReturn(t)

ThreadSpec == ThreadInit /\ [][ThreadNext]_vars

\* ------------------------------------------------------------------------
\* key_expansion(key, expanded_key) on a caller's zeroed buffer, one word of
\* the schedule at a time

KsKeys == Keys \cup {TestKey192, TestKey256}

\* the buffer lengths of the three variants: (nr + 1) * AES_BLOCK_LEN
KsBufLens == {(nr + 1) * AES_BLOCK_LEN : nr \in Variants}

KsInit ==
    /\ debug_build \in BOOLEAN
    /\ key \in KsKeys
    /\ inst = [id \in InstIds |-> NoInst]
    /\ prev = NoCall
    /\ last = NoCall
    /\ th = [t \in Threads |-> IdleThread]
    /\ eng = NoEng
    /\ fn = << >>
    /\ rc2 = NoRc2
    /\ \E n \in KsBufLens :
          ks = [pc |-> "enter", key |-> key, expanded_key |-> zeroed(n),
                i |-> 0, nk |-> 0, nr |-> 0]

\* the asserts and the copy of the key
KsEnter ==
    /\ ks.pc = "enter"
    /\ LET e == key_expansion_enter(ks.key, ks.expanded_key)
       IN  ks' = IF e.panic THEN [ks EXCEPT !.pc = "panicked"]
                 ELSE [ks EXCEPT !.pc = "loop", !.expanded_key = e.val.expanded_key,
                                 !.i = e.val.nk, !.nk = e.val.nk, !.nr = e.val.nr]
    /\ UNCHANGED << debug_build, key, inst, prev, last, th, eng, fn, rc2 >>

\* one iteration of `for i in nk..(AES_NB * (nr + 1))`
KsWord ==
    /\ ks.pc = "loop"
    /\ ks.i < AES_NB * (ks.nr + 1)
    /\ LET r == key_expansion_word(ks.expanded_key, ks.i, ks.nk)
       IN  ks' = IF r.panic THEN [ks EXCEPT !.pc = "panicked"]
                 ELSE [ks EXCEPT !.expanded_key = r.val, !.i = ks.i + 1]
    /\ UNCHANGED << debug_build, key, inst, prev, last, th, eng, fn, rc2 >>

\* the loop is over: key_expansion returns
KsReturn ==
    /\ ks.pc = "loop"
    /\ ks.i >= AES_NB * (ks.nr + 1)
    /\ ks' = [ks EXCEPT !.pc = "done"]
    /\ UNCHANGED << debug_build, key, inst, prev, last, th, eng, fn, rc2 >>

KsNext == KsEnter \/ KsWord \/ KsReturn

KeySpec == KsInit /\ [][KsNext]_vars

\* ------------------------------------------------------------------------
\* The round engine called directly: pub fn encrypt / decrypt take any state,
\* any buffer and any nr from the caller.  One run, one statement at a time;
\* trace lists the transforms the run has completed, in order.

\* the transform that the statement at c.pc calls, with its round argument
\* (0 for the transforms that take none)
step_of(c, nr) ==
    CASE c.pc = "e_ark0"    -> << "add_round_key", 0 >>
      [] c.pc = "e_sub"     -> << "sub_bytes", 0 >>
      [] c.pc = "e_shift"   -> << "shift_rows", 0 >>
      [] c.pc = "e_mix"     -> << "mix_columns", 0 >>
      [] c.pc = "e_ark"     -> << "add_round_key", c.i >>
      [] c.pc = "e_fsub"    -> << "sub_bytes", 0 >>
      [] c.pc = "e_fshift"  -> << "shift_rows", 0 >>
      [] c.pc = "e_fark"    -> << "add_round_key", nr >>
      [] c.pc = "d_arkn"    -> << "add_round_key", nr >>
      [] c.pc = "d_ishift0" -> << "inv_shift_rows", 0 >>
      [] c.pc = "d_isub0"   -> << "inv_sub_bytes", 0 >>
      [] c.pc = "d_ark"     -> << "add_round_key", nr - c.i >>
      [] c.pc = "d_imix"    -> << "inv_mix_columns", 0 >>
      [] c.pc = "d_ishift"  -> << "inv_shift_rows", 0 >>
      [] c.pc = "d_isub"    -> << "inv_sub_bytes", 0 >>
      [] c.pc = "d_ark0"    -> << "add_round_key", 0 >>

\* the round counts a caller passes: the three of AES and others
EngNrs == {0, 1, 10, 11, 12, 14}

EngKeys == {SeqKey(16), SeqKey(24), SeqKey(32)}

\* the buffers a caller passes: the schedule of the key, the schedule without
\* its last round key, and the schedule followed by 16 more bytes
EngBuffers ==
    LET s == key_expansion(key, zeroed((NrOfKeyLen(len(key)) + 1) * AES_BLOCK_LEN)).val
    IN  {s, SubSeq(s, 1, len(s) - AES_BLOCK_LEN), s \o zeroed(AES_BLOCK_LEN)}

EngInit ==
    /\ debug_build \in BOOLEAN
    /\ key \in EngKeys
    /\ inst = [id \in InstIds |-> NoInst]
    /\ prev = NoCall
    /\ last = NoCall
    /\ th = [t \in Threads |-> IdleThread]
    /\ ks = NoKs
    /\ eng = NoEng
    /\ fn = << >>
    /\ rc2 = NoRc2

\* the caller enters encrypt(&mut state, expanded_key, nr) or decrypt(..)
EngCall(op, state, expanded_key, nr) ==
    /\ eng.pc = "none"
    /\ eng' = [pc |-> IF op = "encrypt" THEN "e_ark0" ELSE "d_arkn",
               op |-> op, input |-> state, state |-> state,
               expanded_key |-> expanded_key, nr |-> nr, i |-> 0,
               trace |-> << >>]
    /\ UNCHANGED << debug_build, key, inst, prev, last, th, ks, fn, rc2 >>

\* the next statement of the run
EngStep ==
    /\ eng.pc \in EncryptPcs \cup DecryptPcs
    /\ LET c == IF eng.pc \in EncryptPcs
                  THEN encrypt_step(eng, eng.expanded_key, eng.nr, debug_build)
                ELSE decrypt_step(eng, eng.expanded_key, eng.nr, debug_build)
       IN  eng' = IF c.pc = "panicked" THEN c
                  ELSE [c EXCEPT !.trace = Append(eng.trace, step_of(eng, eng.nr))]
    /\ UNCHANGED << debug_build, key, inst, prev, last, th, ks, fn, rc2 >>

\* the run returns to the caller, who holds the transformed state
EngReturn ==
    /\ eng.pc = "ret"
    /\ eng' = [eng EXCEPT !.pc = "done"]
    /\ UNCHANGED << debug_build, key, inst, prev, last, th, ks, fn, rc2 >>

EngNext ==
    \/ /\ eng.pc = "none"
       /\ \E op \in {"encrypt", "decrypt"}, state \in {Block0011},
             expanded_key \in EngBuffers, nr \in EngNrs :
             EngCall(op, state, expanded_key, nr)
    \/ EngStep
    \/ EngReturn

EngineSpec == EngInit /\ [][EngNext]_vars

\* ------------------------------------------------------------------------
\* The transforms called directly: each is a pub fn on a caller's
\* `&mut [u8; 16]`.  A caller applies up to MaxApply of them, one after the
\* other, to one state; fn lists the calls with the state before and after.
\* Here key is the buffer the caller passes to add_round_key as rounds_key.

\* how many transforms a caller applies to one state
MaxApply == 2

\* one call: f(arg) with the round it was given (add_round_key only), how it
\* ended and the state it left
Application(f, arg, round, r) ==
    [f |-> f, arg |-> arg, round |-> round, ended |-> Ended(r),
     out |-> IF r.panic THEN << >> ELSE r.val]

\* the state with byte v at index i and 0 elsewhere
UnitState(i, v) == [j \in 1..AES_BLOCK_LEN |-> IF j = i + 1 THEN v ELSE 0]

\* the states a caller starts from: every single bit, and the blocks of the tests
FnStates ==
    {UnitState(i, 2 ^ b) : i \in 0..(AES_BLOCK_LEN - 1), b \in 0..7}
      \cup {SeqKey(16), Block0011, Block3243}

\* the state the next call gets: a new one, or the one the last call left
FnArgs ==
    IF fn = << >> THEN FnStates
    ELSE IF Len(fn) < MaxApply /\ fn[Len(fn)].f # "gf_mul"
                               /\ fn[Len(fn)].ended = "returned"
      THEN {fn[Len(fn)].out}
    ELSE {}

\* the buffers passed as rounds_key: the schedules of the 128- and 256-bit test keys
FnRoundKeys == {TestExpanded128, TestExpanded256}

\* the rounds passed to add_round_key: the first, the last of 10 and one more
FnRounds == {0, AES128_NR, AES128_NR + 1}

FnInit ==
    /\ debug_build \in BOOLEAN
    /\ key \in FnRoundKeys
    /\ inst = [id \in InstIds |-> NoInst]
    /\ prev = NoCall
    /\ last = NoCall
    /\ th = [t \in Threads |-> IdleThread]
    /\ ks = NoKs
    /\ eng = NoEng
    /\ fn = << >>
    /\ rc2 = NoRc2

\* sub_bytes(&mut state) and the other transforms of the state alone
SubBytes(state) ==
    /\ fn' = Append(fn, Application("sub_bytes", state, 0, Ok(sub_bytes(state))))
    /\ UNCHANGED << debug_build, key, inst, prev, last, th, ks, eng, rc2 >>

ShiftRows(state) ==
    /\ fn' = Append(fn, Application("shift_rows", state, 0, Ok(shift_rows(state))))
    /\ UNCHANGED << debug_build, key, inst, prev, last, th, ks, eng, rc2 >>

MixColumns(state) ==
    /\ fn' = Append(fn, Application("mix_columns", state, 0, Ok(mix_columns(state))))
    /\ UNCHANGED << debug_build, key, inst, prev, last, th, ks, eng, rc2 >>

InvSubBytes(state) ==
    /\ fn' = Append(fn, Application("inv_sub_bytes", state, 0,
                                    Ok(inv_sub_bytes(state))))
    /\ UNCHANGED << debug_build, key, inst, prev, last, th, ks, eng, rc2 >>

InvShiftRows(state) ==
    /\ fn' = Append(fn, Application("inv_shift_rows", state, 0,
                                    Ok(inv_shift_rows(state))))
    /\ UNCHANGED << debug_build, key, inst, prev, last, th, ks, eng, rc2 >>

InvMixColumns(state) ==
    /\ fn' = Append(fn, Application("inv_mix_columns", state, 0,
                                    Ok(inv_mix_columns(state))))
    /\ UNCHANGED << debug_build, key, inst, prev, last, th, ks, eng, rc2 >>

\* add_round_key(&mut state, &key, round): the buffer is borrowed shared
AddRoundKey(state, round) ==
    /\ fn' = Append(fn, Application("add_round_key", state, round,
                                    add_round_key(state, key, round, debug_build)))
    /\ UNCHANGED << debug_build, key, inst, prev, last, th, ks, eng, rc2 >>

\* gf_mul2(v) .. gf_mul14(v) on a byte of the caller's
GfMul(n, v) ==
    /\ fn = << >>
    /\ fn' = << Application("gf_mul", v, n,
                            Ok(CASE n = 2  -> gf_mul2(v)
                                 [] n = 3  -> gf_mul3(v)
                                 [] n = 9  -> gf_mul9(v)
                                 [] n = 11 -> gf_mul11(v)
                                 [] n = 13 -> gf_mul13(v)
                                 [] n = 14 -> gf_mul14(v))) >>
    /\ UNCHANGED << debug_build, key, inst, prev, last, th, ks, eng, rc2 >>

FnNext ==
    \/ \E state \in FnArgs : SubBytes(state)
    \/ \E state \in FnArgs : ShiftRows(state)
    \/ \E state \in FnArgs : MixColumns(state)
    \/ \E state \in FnArgs : InvSubBytes(state)
    \/ \E state \in FnArgs : InvShiftRows(state)
    \/ \E state \in FnArgs : InvMixColumns(state)
    \/ \E state \in FnArgs, round \in FnRounds : AddRoundKey(state, round)
    \/ \E n \in {2, 3, 9, 11, 13, 14}, v \in 0..255 : GfMul(n, v)

FnSpec == FnInit /\ [][FnNext]_vars

\* ------------------------------------------------------------------------
\* An Rc2 instance and the calls of its caller, one round at a time.  rc2 is
\* the instance (ek), the block the caller holds (the calls write it in
\* place), the caller's block before the first call (plain), the words r and
\* the counters j and i of the call in progress, the calls made so far, and
\* the trace of the call in progress: the subkeys it has read, each as
\* << the function that read it, its index in ek >>.

\* how many calls a caller makes on its block
MaxRc2Calls == 2

\* the key 00 01 02 .. with every byte turned by 0x88, n bytes long
Rc2Key(n) == SubSeq([i \in 1..17 |-> (136 + 37 * (i - 1)) % 256], 1, n)

\* keys of every length from 0 to 17 bytes, and the keys ff..ff and 30 00..00
Rc2Keys ==
    {Rc2Key(n) : n \in 0..17}
      \cup {<< 255, 255, 255, 255, 255, 255, 255, 255 >>, << 48, 0, 0, 0, 0, 0, 0, 0 >>}

\* the blocks a caller holds: three of 8 bytes, one of 7 and one of 9
Rc2Blocks ==
    { << 0, 0, 0, 0, 0, 0, 0, 0 >>,
      << 255, 255, 255, 255, 255, 255, 255, 255 >>,
      << 16, 0, 0, 0, 0, 0, 0, 1 >>,
      << 1, 2, 3, 4, 5, 6, 7 >>,
      << 1, 2, 3, 4, 5, 6, 7, 8, 9 >> }

Rc2Init ==
    /\ debug_build \in BOOLEAN
    /\ key \in Rc2Keys
    /\ inst = [id \in InstIds |-> NoInst]
    /\ prev = NoCall
    /\ last = NoCall
    /\ th = [t \in Threads |-> IdleThread]
    /\ ks = NoKs
    /\ eng = NoEng
    /\ fn = << >>
    /\ rc2 = NoRc2

\* Rc2::new(&key)
Rc2New ==
    /\ rc2.pc = "none"
    /\ LET r == rc2_key_expansion(key)
       IN  rc2' = IF r.panic THEN [rc2 EXCEPT !.pc = "panicked"]
                  ELSE [rc2 EXCEPT !.pc = "ready", !.ek = r.val]
    /\ UNCHANGED << debug_build, key, inst, prev, last, th, ks, eng, fn >>

\* the blocks the caller passes: one of its own, then the block the calls
\* have left
Rc2Args ==
    IF rc2.pc # "ready" \/ Len(rc2.calls) >= MaxRc2Calls THEN {}
    ELSE IF rc2.calls = << >> THEN Rc2Blocks
    ELSE {rc2.block}

\* entry of Rc2::encrypt(&self, block) / Rc2::decrypt(&self, block): the
\* debug_assert_eq! on the length and the load of r from block[0..7]
Rc2Call(op, block) ==
    /\ rc2.pc = "ready"
    /\ Len(rc2.calls) < MaxRc2Calls
    /\ rc2' = [rc2 EXCEPT
                 !.pc = IF (debug_build /\ len(block) # 8) \/ len(block) < 8
                          THEN "panicked"
                        ELSE IF op = "encrypt" THEN "mix" ELSE "reverse_mix",
                 !.block = block,
                 !.plain = IF rc2.calls = << >> THEN block ELSE rc2.plain,
                 !.r = IF len(block) < 8 THEN << >>
                       ELSE << block[2] * 256 + block[1], block[4] * 256 + block[3],
                               block[6] * 256 + block[5], block[8] * 256 + block[7] >>,
                 !.j = IF op = "encrypt" THEN 0 ELSE 63,
                 !.i = 0,
                 !.calls = Append(rc2.calls, op),
                 !.trace = << >>]
    /\ UNCHANGED << debug_build, key, inst, prev, last, th, ks, eng, fn >>

\* the subkeys read by the function f, appended to a trace
Read(trace, f, used) == trace \o [k \in 1..Len(used) |-> << f, used[k] >>]

\* where the loop `for i in 0..16` goes after the body of round i
Rc2NextRound(c, r, j, trace, body) ==
    [c EXCEPT !.pc = IF c.i + 1 < 16 THEN body ELSE "store",
              !.r = r, !.j = j, !.i = c.i + 1, !.trace = trace]

\* one step of the loop of Rc2::encrypt: mix, and mash if i == 4 || i == 10
Rc2_encrypt_step(c) ==
    CASE c.pc = "mix" ->
           LET m == mix(c.ek, c.r, c.j)
           IN  IF m.panic THEN [c EXCEPT !.pc = "panicked"]
               ELSE IF c.i = 4 \/ c.i = 10
                 THEN [c EXCEPT !.pc = "mash", !.r = m.val.r, !.j = m.val.j,
                                !.trace = Read(c.trace, "mix", m.val.used)]
               ELSE Rc2NextRound(c, m.val.r, m.val.j,
                                 Read(c.trace, "mix", m.val.used), "mix")
      [] c.pc = "mash" ->
           LET m == mash(c.ek, c.r)
           IN  Rc2NextRound(c, m.r, c.j, Read(c.trace, "mash", m.used), "mix")

\* the loop of Rc2::decrypt with reverse_mash after the rounds with i == 5 and
\* i == 11 (a faulty variant)
Rc2_decrypt_step_mash_late(c) ==
    CASE c.pc = "reverse_mix" ->
           LET m == reverse_mix(c.ek, c.r, c.j)
           IN  IF m.panic THEN [c EXCEPT !.pc = "panicked"]
               ELSE IF c.i = 5 \/ c.i = 11
                 THEN [c EXCEPT !.pc = "reverse_mash", !.r = m.val.r, !.j = m.val.j,
                                !.trace = Read(c.trace, "reverse_mix", m.val.used)]
               ELSE Rc2NextRound(c, m.val.r, m.val.j,
                                 Read(c.trace, "reverse_mix", m.val.used),
                                 "reverse_mix")
      [] c.pc = "reverse_mash" ->
           LET m == reverse_mash(c.ek, c.r)
           IN  Rc2NextRound(c, m.r, c.j, Read(c.trace, "reverse_mash", m.used),
                            "reverse_mix")

\* one step of the loop of Rc2::decrypt: reverse_mix, and reverse_mash if
\* i == 4 || i == 10
Rc2_decrypt_step(c) ==
    CASE c.pc = "reverse_mix" ->
           LET m == reverse_mix(c.ek, c.r, c.j)
           IN  IF m.panic THEN [c EXCEPT !.pc = "panicked"]
               ELSE IF c.i = 4 \/ c.i = 10
                 THEN [c EXCEPT !.pc = "reverse_mash", !.r = m.val.r, !.j = m.val.j,
                                !.trace = Read(c.trace, "reverse_mix", m.val.used)]
               ELSE Rc2NextRound(c, m.val.r, m.val.j,
                                 Read(c.trace, "reverse_mix", m.val.used),
                                 "reverse_mix")
      [] c.pc = "reverse_mash" ->
           LET m == reverse_mash(c.ek, c.r)
           IN  Rc2NextRound(c, m.r, c.j, Read(c.trace, "reverse_mash", m.used),
                            "reverse_mix")

\* the call in progress takes its next round
Rc2Step ==
    /\ rc2.pc \in {"mix", "mash", "reverse_mix", "reverse_mash"}
    /\ rc2' = IF rc2.pc \in {"mix", "mash"} THEN Rc2_encrypt_step(rc2)
              ELSE Rc2_decrypt_step(rc2)
    /\ UNCHANGED << debug_build, key, inst, prev, last, th, ks, eng, fn >>

\* block[0] = r[0] as u8; block[1] = (r[0] >> 8) as u8; .. block[7]: the call
\* writes the first 8 bytes of the caller's block and returns
Rc2Store ==
    /\ rc2.pc = "store"
    /\ rc2' = [rc2 EXCEPT
                 !.pc = "ready",
                 !.block = [k \in 1..len(rc2.block) |->
                               IF k > 8 THEN rc2.block[k]
                               ELSE IF k % 2 = 1 THEN rc2.r[(k + 1) \div 2] % 256
                               ELSE rc2.r[k \div 2] \div 256]]
    /\ UNCHANGED << debug_build, key, inst, prev, last, th, ks, eng, fn >>

Rc2Next ==
    \/ Rc2New
    \/ \E op \in {"encrypt", "decrypt"}, block \in Rc2Args : Rc2Call(op, block)
    \/ Rc2Step
    \/ Rc2Store

Rc2Spec == Rc2Init /\ [][Rc2Next]_vars

\* ------------------------------------------------------------------------
\* Properties

IsCall(c) == c.op \in {"encrypt", "decrypt"}

IsBlock(b) == len(b) = AES_BLOCK_LEN /\ \A i \in 1..len(b) : b[i] \in 0..255

\* C1: round trip.  Whenever decrypt is called on the block that the encrypt
\* call just before it returned (same key, any of the three variants), it
\* returns exactly the block that encrypt was given.
C1_RoundTrip ==
    (last.op = "decrypt" /\ prev.op = "encrypt" /\ prev.ended = "returned"
                         /\ last.input = prev.out)
      => (last.ended = "returned" /\ last.out = prev.input)

\* a decrypt of a 192-bit instance has given back the plaintext of the encrypt
\* before it
C1_Witness ==
    /\ last.op = "decrypt" /\ prev.op = "encrypt" /\ last.chain = 1
    /\ last.nr = AES192_NR
    /\ last.input = prev.out /\ last.input # prev.input
    /\ last.ended = "returned" /\ last.out = prev.input

C3_KnownAnswers ==
    (last.op = "encrypt")
      => /\ (key = SeqKey(16) /\ last.input = Block0011)
               => (last.ended = "returned" /\ last.out = Cipher69c4)
         /\ (key = SeqKey(24) /\ last.input = Block0011)
               => (last.ended = "returned" /\ last.out = Cipherdda9)
         /\ (key = SeqKey(32) /\ last.input = Block0011)
               => (last.ended = "returned" /\ last.out = Cipher8ea2)
         /\ (key = TestKey128 /\ last.input = Block3243)
               => (last.ended = "returned" /\ last.out = Cipher3925)

\* the 256-bit vector has been encrypted
C3_Witness ==
    /\ last.op = "encrypt" /\ key = SeqKey(32) /\ last.input = Block0011
    /\ last.nr = AES256_NR /\ last.out = Cipher8ea2

\* C4: key-schedule vectors.  When key_expansion returns, the buffer of the
\* key 2b7e..3c is the 176 bytes of the standard (first derived word a0fafe17,
\* last word b6630ca6), that of 8e73..7b the 208 bytes ending 01002202 and
\* that of 603d..f4 the 240 bytes ending 706c631e.
C4_KeyScheduleVectors ==
    (ks.pc = "done")
      => /\ (ks.key = TestKey128)
               => /\ ks.expanded_key = TestExpanded128
                  /\ len(ks.expanded_key) = 176
                  /\ SubSeq(ks.expanded_key, 17, 20) = << 160, 250, 254, 23 >>
                  /\ SubSeq(ks.expanded_key, 173, 176) = << 182, 99, 12, 166 >>
         /\ (ks.key = TestKey192)
               => /\ ks.expanded_key = TestExpanded192
                  /\ len(ks.expanded_key) = 208
                  /\ SubSeq(ks.expanded_key, 205, 208) = << 1, 0, 34, 2 >>
         /\ (ks.key = TestKey256)
               => /\ ks.expanded_key = TestExpanded256
                  /\ len(ks.expanded_key) = 240
                  /\ SubSeq(ks.expanded_key, 237, 240) = << 112, 108, 99, 30 >>

\* the schedule of the 256-bit test key is complete
C4_Witness ==
    /\ ks.pc = "done" /\ ks.key = TestKey256
    /\ ks.i = 60 /\ ks.expanded_key = TestExpanded256

\* C5: structural invariant.  Every instance that new has returned holds
\* (Nr + 1) * 16 bytes for the Nr of the length of the key it was built from,
\* its calls run with that Nr, and new returns an instance only to the variant
\* of the key's length.
C5_Structure ==
    /\ \A id \in InstIds :
          inst[id].live
            => /\ len(key) \in {AES128_KEY_LEN, AES192_KEY_LEN, AES256_KEY_LEN}
               /\ inst[id].self.nr = NrOfKeyLen(len(key))
               /\ len(inst[id].self.ek) = (NrOfKeyLen(len(key)) + 1) * 16
    /\ IsCall(last) => last.nr = NrOfKeyLen(len(key))
    /\ (last.op = "new" /\ last.ended = "returned")
          => /\ last.nr = NrOfKeyLen(len(last.input))
             /\ inst[last.id].live
    /\ (last.op = "new" /\ last.nr # NrOfKeyLen(len(last.input)))
          => (last.ended = "panicked" /\ ~inst[last.id].live)

\* a 192-bit instance holds 208 bytes and has run a call with Nr = 12, after
\* new of another variant was refused the same key
C5_Witness ==
    /\ inst[1].live /\ ~inst[2].live /\ len(key) = AES192_KEY_LEN
    /\ len(inst[1].self.ek) = 208 /\ inst[1].self.nr = AES192_NR
    /\ last.op = "new" /\ last.nr = AES256_NR /\ last.ended = "panicked"
    /\ IsCall(prev) /\ prev.nr = AES192_NR

\* C6: mutual inverses.  Whenever encrypt is called on the block that the
\* decrypt call just before it returned, it returns exactly the block that
\* decrypt was given; with the round trip this makes both bijections.
C6_EncryptAfterDecrypt ==
    (last.op = "encrypt" /\ prev.op = "decrypt" /\ prev.ended = "returned"
                         /\ last.input = prev.out)
      => (last.ended = "returned" /\ last.out = prev.input)

\* an encrypt of a 256-bit instance has given back the block of the decrypt
\* before it
C6_Witness ==
    /\ last.op = "encrypt" /\ prev.op = "decrypt" /\ last.chain = 1
    /\ last.nr = AES256_NR
    /\ last.input = prev.out /\ last.input # prev.input
    /\ last.ended = "returned" /\ last.out = prev.input

\* C7: totality.  A call of encrypt or decrypt with a 16-byte block on an
\* instance returns, in a debug and in a release build, and what it returns is
\* 16 bytes: no index and no assertion fails.
C7_Total ==
    (IsCall(last) /\ len(last.input) = AES_BLOCK_LEN)
      => (last.ended = "returned" /\ IsBlock(last.out))

\* a decrypt with 14 rounds has returned a block in a debug build
C7_Witness ==
    /\ debug_build /\ last.op = "decrypt" /\ last.nr = AES256_NR
    /\ len(last.input) = AES_BLOCK_LEN
    /\ last.ended = "returned" /\ IsBlock(last.out)

\* C8: key-schedule postcondition.  When key_expansion returns, the key has
\* 16, 24 or 32 bytes, the buffer has (Nr + 1) * 16 bytes (176, 208 or 240)
\* and its first key.len() bytes are the key.
C8_KeyPrefix ==
    (ks.pc = "done")
      => /\ len(ks.key) \in {16, 24, 32}
         /\ len(ks.expanded_key) = (NrOfKeyLen(len(ks.key)) + 1) * 16
         /\ len(ks.expanded_key) \in {176, 208, 240}
         /\ \A i \in 1..len(ks.key) : ks.expanded_key[i] = ks.key[i]

\* the schedule of a 24-byte key is complete in its 208-byte buffer
C8_Witness ==
    /\ ks.pc = "done" /\ ks.key = SeqKey(24)
    /\ len(ks.expanded_key) = 208
    /\ SubSeq(ks.expanded_key, 1, 24) = ks.key

\* what op(input) returns on an instance newly built from the key
Fresh(nr, op, input) ==
    LET c == ExpandedKey_new(nr, key)
        r == IF op = "encrypt" THEN ExpandedKey_encrypt(c.val, input, debug_build)
             ELSE ExpandedKey_decrypt(c.val, input, debug_build)
    IN  IF c.panic THEN [ended |-> "panicked", out |-> << >>]
        ELSE [ended |-> Ended(r), out |-> IF r.panic THEN << >> ELSE r.val]

\* C9: determinism and history independence.  Whatever calls came before, on
\* whichever instance of the key, a call returns what the same call returns on
\* an instance newly built from the key; so two calls in a row with the same
\* block return the same block, on the same instance or on two.
C9_Deterministic ==
    /\ IsCall(last)
          => /\ last.ended = Fresh(last.nr, last.op, last.input).ended
             /\ last.out = Fresh(last.nr, last.op, last.input).out
    /\ (IsCall(last) /\ prev.op = last.op /\ prev.input = last.input)
          => (last.ended = prev.ended /\ last.out = prev.out)

\* the same block was encrypted on two instances, after other calls, with the
\* same result
C9_Witness ==
    /\ inst[1].live /\ inst[2].live
    /\ last.op = "encrypt" /\ prev.op = "encrypt"
    /\ last.id # prev.id /\ last.input = prev.input
    /\ last.ended = "returned" /\ last.out = prev.out

\* a call that has returned or is about to holds what it returns when alone
C10_ReturnsAsAlone ==
    \A t \in Threads :
        /\ th[t].pc # "panicked"
        /\ th[t].pc = "ret"
              => (th[t].alone.ended = "returned" /\ th[t].state = th[t].alone.out)
        /\ th[t].pc = "done"
              => (th[t].alone.ended = "returned" /\ th[t].out = th[t].alone.out)

\* a step writes neither the instance nor the call of a second thread
C10_WritesOwnState ==
    /\ inst' = inst
    /\ \A t, u \in Threads : t # u => (th'[t] = th[t] \/ th'[u] = th[u])

\* C10: concurrent sharing.  With the steps of the threads' calls on one
\* instance interleaved in every way, each call returns the block it returns
\* when run alone, and no step writes the expanded key or the state of a call
\* of another thread.
C10_Concurrent == [](C10_ReturnsAsAlone) /\ [][C10_WritesOwnState]_vars

\* thread 1 has returned from an encrypt while a decrypt of thread 2 is in its
\* fifth round
C10_Witness ==
    /\ th[1].pc = "done" /\ th[1].op = "encrypt"
    /\ th[1].out = th[1].alone.out /\ th[1].out = Cipher69c4
    /\ th[2].op = "decrypt" /\ th[2].pc = "d_imix" /\ th[2].i = 5

\* the run of the round engine has handed a transformed state back
EngReturned == eng.pc \in {"ret", "done"}

\* C11 as the specification states it: a run of encrypt or decrypt with nr in
\* {10, 12, 14} and a buffer whose length is not (nr + 1) * 16, shorter or
\* longer, aborts and never returns a transformed block.
C11_BufferLengthFailsFast ==
    (eng.pc # "none" /\ eng.nr \in {AES128_NR, AES192_NR, AES256_NR}
                     /\ len(eng.expanded_key) # (eng.nr + 1) * AES_BLOCK_LEN)
      => ~EngReturned

\* encrypt with nr = 10 has returned a block from the 240-byte schedule of a
\* 32-byte key
C11_Witness ==
    /\ eng.pc = "done" /\ eng.op = "encrypt" /\ eng.nr = AES128_NR
    /\ len(eng.expanded_key) = 240 /\ IsBlock(eng.state)

\* C12 as the specification states it: a run of encrypt or decrypt with nr
\* not in {10, 12, 14} aborts and never returns a transformed block, whatever
\* the length of the buffer.
C12_RoundCountFailsFast ==
    (eng.pc # "none" /\ eng.nr \notin {AES128_NR, AES192_NR, AES256_NR})
      => ~EngReturned

\* in a release build decrypt with nr = 11 has returned a block from a
\* 192-byte buffer
C12_Witness ==
    /\ ~debug_build /\ eng.pc = "done" /\ eng.op = "decrypt" /\ eng.nr = 11
    /\ len(eng.expanded_key) = 192 /\ IsBlock(eng.state)

Step(f, round) == << f, round >>

\* the transforms of rounds r .. nr - 1 of the cipher, in order
RECURSIVE ForwardRounds(_, _)
ForwardRounds(r, nr) ==
    IF r >= nr THEN << >>
    ELSE << Step("sub_bytes", 0), Step("shift_rows", 0), Step("mix_columns", 0),
            Step("add_round_key", r) >> \o ForwardRounds(r + 1, nr)

\* the order of transforms that FIPS 197 gives the cipher with nr rounds
ForwardOrder(nr) ==
    << Step("add_round_key", 0) >> \o ForwardRounds(1, nr)
      \o << Step("sub_bytes", 0), Step("shift_rows", 0), Step("add_round_key", nr) >>

\* the transforms of rounds r .. nr - 1 of the inverse cipher, in order
RECURSIVE InverseRounds(_, _)
InverseRounds(r, nr) ==
    IF r >= nr THEN << >>
    ELSE << Step("add_round_key", nr - r), Step("inv_mix_columns", 0),
            Step("inv_shift_rows", 0), Step("inv_sub_bytes", 0) >>
           \o InverseRounds(r + 1, nr)

\* the order of transforms of the inverse cipher with nr rounds
InverseOrder(nr) ==
    << Step("add_round_key", nr), Step("inv_shift_rows", 0),
       Step("inv_sub_bytes", 0) >> \o InverseRounds(1, nr)
      \o << Step("add_round_key", 0) >>

\* the state after one transform
Transformed(s, state, rounds_key) ==
    CASE s[1] = "sub_bytes"       -> sub_bytes(state)
      [] s[1] = "shift_rows"      -> shift_rows(state)
      [] s[1] = "mix_columns"     -> mix_columns(state)
      [] s[1] = "inv_sub_bytes"   -> inv_sub_bytes(state)
      [] s[1] = "inv_shift_rows"  -> inv_shift_rows(state)
      [] s[1] = "inv_mix_columns" -> inv_mix_columns(state)
      [] s[1] = "add_round_key"   -> add_round_key(state, rounds_key, s[2], FALSE).val

\* the state after the transforms j .. Len(t) of t, applied in order to state
RECURSIVE AppliedFrom(_, _, _, _)
AppliedFrom(t, j, state, rounds_key) ==
    IF j > Len(t) THEN state
    ELSE LET s == Transformed(t[j], state, rounds_key)
         IN  IF len(s) = AES_BLOCK_LEN
               THEN AppliedFrom(t, j + 1, s, rounds_key) ELSE s

\* the state after the transforms of t, applied in order to state
Applied(t, state, rounds_key) == AppliedFrom(t, 1, state, rounds_key)

IsPrefix(a, b) == Len(a) <= Len(b) /\ SubSeq(b, 1, Len(a)) = a

Count(t, f) == Cardinality({j \in 1..Len(t) : t[j][1] = f})

\* the round arguments of the add_round_key calls of t, in order
RoundsUsed(t) ==
    LET a == SelectSeq(t, LAMBDA s : s[1] = "add_round_key")
    IN  [j \in 1..Len(a) |-> a[j][2]]

\* C13: forward round order.  A run of encrypt with nr in {10, 12, 14} applies
\* to the state, statement after statement, the transforms AddRoundKey(0),
\* then SubBytes, ShiftRows, MixColumns, AddRoundKey(r) for r = 1 .. nr - 1,
\* then SubBytes, ShiftRows, AddRoundKey(nr), and no other: MixColumns nr - 1
\* times and never after the last SubBytes, AddRoundKey nr + 1 times with the
\* rounds 0, 1, .., nr.
C13_ForwardOrder ==
    (eng.op = "encrypt" /\ eng.nr \in {AES128_NR, AES192_NR, AES256_NR})
      => /\ IsPrefix(eng.trace, ForwardOrder(eng.nr))
         /\ eng.state = Applied(eng.trace, eng.input, eng.expanded_key)
         /\ EngReturned
              => /\ eng.trace = ForwardOrder(eng.nr)
                 /\ Count(eng.trace, "mix_columns") = eng.nr - 1
                 /\ Count(eng.trace, "add_round_key") = eng.nr + 1
                 /\ RoundsUsed(eng.trace) = [r \in 1..(eng.nr + 1) |-> r - 1]
                 /\ eng.trace[Len(eng.trace) - 2][1] = "sub_bytes"
                 /\ \A j \in (Len(eng.trace) - 2)..Len(eng.trace) :
                       eng.trace[j][1] # "mix_columns"

\* encrypt with nr = 12 has returned after its 48 transforms
C13_Witness ==
    /\ eng.pc = "done" /\ eng.op = "encrypt" /\ eng.nr = AES192_NR
    /\ len(eng.expanded_key) = 208
    /\ Len(eng.trace) = 48 /\ eng.trace = ForwardOrder(AES192_NR)

\* C14: inverse round order.  A run of decrypt with nr in {10, 12, 14}
\* applies AddRoundKey(nr), InvShiftRows, InvSubBytes, then AddRoundKey(nr - r),
\* InvMixColumns, InvShiftRows, InvSubBytes for r = 1 .. nr - 1, then
\* AddRoundKey(0), and no other: the rounds nr, nr - 1, .., 0 once each, and
\* InvMixColumns nr - 1 times, each directly after an AddRoundKey of a round
\* in 1 .. nr - 1.
C14_InverseOrder ==
    (eng.op = "decrypt" /\ eng.nr \in {AES128_NR, AES192_NR, AES256_NR})
      => /\ IsPrefix(eng.trace, InverseOrder(eng.nr))
         /\ eng.state = Applied(eng.trace, eng.input, eng.expanded_key)
         /\ \A j \in 1..Len(eng.trace) :
               eng.trace[j][1] = "inv_mix_columns"
                 => /\ j > 1
                    /\ eng.trace[j - 1][1] = "add_round_key"
                    /\ eng.trace[j - 1][2] \in 1..(eng.nr - 1)
         /\ EngReturned
              => /\ eng.trace = InverseOrder(eng.nr)
                 /\ Count(eng.trace, "inv_mix_columns") = eng.nr - 1
                 /\ Count(eng.trace, "add_round_key") = eng.nr + 1
                 /\ RoundsUsed(eng.trace) = [r \in 1..(eng.nr + 1) |-> eng.nr + 1 - r]

\* decrypt with nr = 14 has returned after its 56 transforms
C14_Witness ==
    /\ eng.pc = "done" /\ eng.op = "decrypt" /\ eng.nr = AES256_NR
    /\ len(eng.expanded_key) = 240
    /\ Len(eng.trace) = 56 /\ eng.trace = InverseOrder(AES256_NR)

\* word j of the schedule under expansion: its bytes 4j .. 4j + 3
Word(j) == SubSeq(ks.expanded_key, WORD_SIZE * j + 1, WORD_SIZE * j + WORD_SIZE)

XorWord(u, v) == << Xor(u[1], v[1]), Xor(u[2], v[2]), Xor(u[3], v[3]), Xor(u[4], v[4]) >>

\* RotWord and SubWord of FIPS 197 on a word given by its four bytes
RotWord(w) == << w[2], w[3], w[4], w[1] >>
SubWord(w) == << FORWARD_S_BOX[w[1] + 1], FORWARD_S_BOX[w[2] + 1],
                 FORWARD_S_BOX[w[3] + 1], FORWARD_S_BOX[w[4] + 1] >>

\* multiplication by x in GF(2^8) modulo x^8 + x^4 + x^3 + x + 1
XTime(b) == Xor((2 * b) % 256, IF b >= 128 THEN 27 ELSE 0)

\* x^n in GF(2^8)
RECURSIVE XPower(_)
XPower(n) == IF n = 0 THEN 1 ELSE XTime(XPower(n - 1))

\* the round-constant word of FIPS 197 for the n-th key-length block: x^(n-1)
\* in its first byte, nothing in the other three
RconWord(n) == << XPower(n - 1), 0, 0, 0 >>

\* the value temp that was XORed with w[j - Nk] to give the word w[j]
TempUsed(j) == XorWord(Word(j), Word(j - ks.nk))

\* the word indices the schedule has written so far
WordsWritten == IF ks.pc \in {"loop", "done"} THEN ks.nk..(ks.i - 1) ELSE {}

\* C15: the SubWord-only step.  For every word w[i] written with i % Nk # 0,
\* temp is SubWord(w[i-1]) exactly when Nk = 8 and i % Nk = 4, and w[i-1]
\* itself otherwise; so no word of a 16- or 24-byte key takes that step.
C15_SubWordOnlyStep ==
    \A j \in WordsWritten :
        j % ks.nk # 0
          => /\ TempUsed(j) = IF ks.nk = 8 /\ j % ks.nk = 4
                                THEN SubWord(Word(j - 1)) ELSE Word(j - 1)
             /\ (TempUsed(j) = SubWord(Word(j - 1))) <=> (ks.nk = 8 /\ j % ks.nk = 4)
             /\ (ks.nk \in {4, 6}) => TempUsed(j) = Word(j - 1)

\* word 12 of the schedule of the 256-bit test key was made with SubWord
\* only, word 13 with w[12] as it is
C15_Witness ==
    /\ ks.pc = "done" /\ ks.key = TestKey256 /\ ks.nk = 8
    /\ TempUsed(12) = SubWord(Word(11)) /\ TempUsed(13) = Word(12)

\* C16: the recurrence.  Every word w[i] written, Nk <= i < 4 * (Nr + 1), is
\* w[i-Nk] XOR temp; when i % Nk = 0 temp is SubWord(RotWord(w[i-1])) with
\* Rcon[i/Nk - 1] = x^(i/Nk - 1) XORed into its first byte and nothing into
\* the other three; a run that returns has written all the words.
C16_Recurrence ==
    /\ \A j \in WordsWritten :
          /\ Word(j) = XorWord(Word(j - ks.nk), TempUsed(j))
          /\ j % ks.nk = 0
               => /\ TempUsed(j) = XorWord(SubWord(RotWord(Word(j - 1))),
                                           RconWord(j \div ks.nk))
                  /\ to_le_bytes(RCON[(j \div ks.nk - 1) + 1]) = RconWord(j \div ks.nk)
                  /\ \A b \in 2..4 : TempUsed(j)[b] = SubWord(RotWord(Word(j - 1)))[b]
          /\ j % ks.nk # 0
               => TempUsed(j) \in {Word(j - 1), SubWord(Word(j - 1))}
    /\ ks.pc = "done" => ks.i = AES_NB * (NrOfKeyLen(len(ks.key)) + 1)

\* the schedule of a 24-byte key has written word 12 with RotWord, SubWord and
\* the second round constant
C16_Witness ==
    /\ ks.pc = "loop" /\ ks.nk = 6 /\ ks.i = 13
    /\ TempUsed(12) = XorWord(SubWord(RotWord(Word(11))), << 2, 0, 0, 0 >>)

\* the product of n and b in GF(2^8): b times each power of x in n, summed
RECURSIVE GFMul(_, _)
GFMul(n, b) ==
    IF n = 0 THEN 0
    ELSE Xor(IF n % 2 = 1 THEN b ELSE 0, GFMul(n \div 2, XTime(b)))

\* the matrices of MixColumns and InvMixColumns of FIPS 197
MixMatrix == << << 2, 3, 1, 1 >>, << 1, 2, 3, 1 >>, << 1, 1, 2, 3 >>, << 3, 1, 1, 2 >> >>
InvMixMatrix ==
    << << 14, 11, 13, 9 >>, << 9, 14, 11, 13 >>,
       << 13, 9, 14, 11 >>, << 11, 13, 9, 14 >> >>

\* row r of the matrix m times column c of the state s
RowTimesColumn(m, r, s, c) ==
    Xor(Xor(GFMul(m[r + 1][1], s[4 * c + 1]), GFMul(m[r + 1][2], s[4 * c + 2])),
        Xor(GFMul(m[r + 1][3], s[4 * c + 3]), GFMul(m[r + 1][4], s[4 * c + 4])))

\* the calls of f among the calls made
Calls(f) == {k \in 1..Len(fn) : fn[k].f = f}

\* C17: MixColumns and InvMixColumns.  After mix_columns byte r of column c
\* is row r of the matrix (2 3 1 1 / 1 2 3 1 / 1 1 2 3 / 3 1 1 2) times the
\* old column c over GF(2^8), after inv_mix_columns row r of
\* (14 11 13 9 / 9 14 11 13 / 13 9 14 11 / 11 13 9 14) times the old column c;
\* no byte depends on another column or on a byte already replaced.
C17_MixColumns ==
    /\ \A k \in Calls("mix_columns") : \A c \in 0..3, r \in 0..3 :
          fn[k].out[4 * c + r + 1] = RowTimesColumn(MixMatrix, r, fn[k].arg, c)
    /\ \A k \in Calls("inv_mix_columns") : \A c \in 0..3, r \in 0..3 :
          fn[k].out[4 * c + r + 1] = RowTimesColumn(InvMixMatrix, r, fn[k].arg, c)

\* mix_columns has turned the column (0, 80, 0, 0) into (9b, 1b, 80, 80), and
\* inv_mix_columns was called on the result
C17_Witness ==
    /\ Len(fn) = 2
    /\ fn[1].f = "mix_columns" /\ fn[1].arg = UnitState(5, 128)
    /\ SubSeq(fn[1].out, 5, 8) = << 155, 27, 128, 128 >>
    /\ fn[2].f = "inv_mix_columns" /\ fn[2].arg = fn[1].out

\* C18: ShiftRows and InvShiftRows.  With byte i at row i % 4 and column
\* i / 4, shift_rows puts into (row k, column c) the old byte of (row k, column
\* (c + k) mod 4) and inv_shift_rows the old byte of (row k, column (c - k)
\* mod 4); both leave row 0 as it is, and inv_shift_rows undoes shift_rows.
C18_ShiftRows ==
    /\ \A j \in Calls("shift_rows") :
          /\ \A k \in 0..3, c \in 0..3 :
                fn[j].out[4 * c + k + 1] = fn[j].arg[4 * ((c + k) % 4) + k + 1]
          /\ \A c \in 0..3 : fn[j].out[4 * c + 1] = fn[j].arg[4 * c + 1]
          /\ (j < Len(fn) /\ fn[j + 1].f = "inv_shift_rows")
                => fn[j + 1].out = fn[j].arg
    /\ \A j \in Calls("inv_shift_rows") :
          /\ \A k \in 0..3, c \in 0..3 :
                fn[j].out[4 * c + k + 1] = fn[j].arg[4 * ((c + 4 - k) % 4) + k + 1]
          /\ \A c \in 0..3 : fn[j].out[4 * c + 1] = fn[j].arg[4 * c + 1]

\* shift_rows has turned 00 01 .. 0f into 00 05 0a 0f 04 09 0e 03 .., and
\* inv_shift_rows has turned that back
C18_Witness ==
    /\ Len(fn) = 2
    /\ fn[1].f = "shift_rows" /\ fn[1].arg = SeqKey(16)
    /\ fn[1].out = << 0, 5, 10, 15, 4, 9, 14, 3, 8, 13, 2, 7, 12, 1, 6, 11 >>
    /\ fn[2].f = "inv_shift_rows" /\ fn[2].out = SeqKey(16)

\* C19: the multiplication tables.  For every byte x and n in {2, 3, 9, 11,
\* 13, 14}, gf_mul<n>(x) = GF_MUL<n>[x] is the product of x and n as
\* polynomials over GF(2) modulo x^8 + x^4 + x^3 + x + 1; GF_MUL2[x] is
\* (2x mod 256) XOR (1b if x >= 128) and GF_MUL3[x] is GF_MUL2[x] XOR x.
C19_GFTables ==
    \A k \in Calls("gf_mul") :
        /\ fn[k].out = GFMul(fn[k].round, fn[k].arg)
        /\ fn[k].round = 2
             => /\ fn[k].out = Xor((2 * fn[k].arg) % 256,
                                   IF fn[k].arg >= 128 THEN 27 ELSE 0)
                /\ fn[k].out = GF_MUL2[fn[k].arg + 1]
        /\ fn[k].round = 3
             => /\ fn[k].out = Xor(GF_MUL2[fn[k].arg + 1], fn[k].arg)
                /\ fn[k].out = GF_MUL3[fn[k].arg + 1]
        /\ fn[k].round = 9  => fn[k].out = GF_MUL9[fn[k].arg + 1]
        /\ fn[k].round = 11 => fn[k].out = GF_MUL11[fn[k].arg + 1]
        /\ fn[k].round = 13 => fn[k].out = GF_MUL13[fn[k].arg + 1]
        /\ fn[k].round = 14 => fn[k].out = GF_MUL14[fn[k].arg + 1]

\* gf_mul3 was called on ae, a byte whose double needs the reduction: the
\* result is e9
C19_Witness ==
    /\ Len(fn) = 1 /\ fn[1].f = "gf_mul" /\ fn[1].round = 3
    /\ fn[1].arg = 174 /\ fn[1].out = 233

\* the buffer k with every byte outside the round key of round r set to v
OutsideSet(k, r, v) ==
    [j \in 1..len(k) |->
        IF j \in (r * AES_BLOCK_LEN + 1)..((r + 1) * AES_BLOCK_LEN) THEN k[j] ELSE v]

\* what the calls of add_round_key made so far have done
C20_XorsRoundKey ==
    \A k \in Calls("add_round_key") :
        LET r == fn[k].round
        IN  (r + 1) * AES_BLOCK_LEN <= len(key)
              => /\ fn[k].ended = "returned"
                 /\ len(fn[k].out) = AES_BLOCK_LEN
                 /\ \A i \in 0..15 :
                       fn[k].out[i + 1] =
                           Xor(fn[k].arg[i + 1], key[r * AES_BLOCK_LEN + i + 1])
                 /\ \A v \in {0, 255} :
                       fn[k].out = add_round_key(fn[k].arg, OutsideSet(key, r, v), r,
                                                 debug_build).val
                 /\ (k < Len(fn) /\ fn[k + 1].f = "add_round_key"
                                 /\ fn[k + 1].round = r)
                       => fn[k + 1].out = fn[k].arg

\* C20: AddRoundKey.  For a round r with (r + 1) * 16 <= the buffer's length,
\* add_round_key returns with state[i] XOR key[r * 16 + i] in every byte i of
\* the state, whatever the bytes of the buffer outside that slice are; a
\* second call with the same round gives the first state back; and no call
\* changes the buffer.
C20_AddRoundKey == [](C20_XorsRoundKey) /\ [][key' = key]_vars

\* add_round_key was called twice with the last round of a 176-byte buffer
\* and the state is again what it was
C20_Witness ==
    /\ Len(fn) = 2 /\ len(key) = 176
    /\ fn[1].f = "add_round_key" /\ fn[1].round = AES128_NR
    /\ fn[2].f = "add_round_key" /\ fn[2].round = AES128_NR
    /\ fn[1].arg = Block3243 /\ fn[1].out # fn[1].arg
    /\ fn[2].out = Block3243

\* every instance holds the expanded key that construction derived from the key
C21_ExpandedKeyKept ==
    \A id \in InstIds :
        inst[id].live
          => inst[id].self = ExpandedKey_new(inst[id].self.nr, key).val

\* what a call of encrypt or decrypt leaves as it was: the instances, the
\* caller's key, the block the call before returned (the caller's input
\* when calls are chained) and everything else but the record of this call
C21_CallChangesOnlyItsResult ==
    IsCall(last')
      => /\ inst' = inst
         /\ key' = key
         /\ prev' = last
         /\ (last'.chain > 0 => last'.input = prev'.out)
         /\ last'.input \in Blocks \cup {last.out}
         /\ last'.ended = "returned" => len(last'.out) = AES_BLOCK_LEN
         /\ UNCHANGED << debug_build, th, ks, eng, fn, rc2 >>

\* C21: frame.  After construction no sequence of encrypt and decrypt calls
\* changes a byte of an instance's expanded key, and a call changes neither
\* the block the caller passed nor any state other than the 16-byte block it
\* returns.
C21_Frame == [](C21_ExpandedKeyKept) /\ [][C21_CallChangesOnlyItsResult]_vars

\* after an encrypt and a decrypt of its result on the same instance, the
\* instance holds the expanded key of the FIPS 197 example key
C21_Witness ==
    /\ prev.op = "encrypt" /\ last.op = "decrypt" /\ prev.id = last.id
    /\ last.chain = 1 /\ last.input = prev.out /\ last.ended = "returned"
    /\ key = TestKey128 /\ inst[last.id].self.ek = TestExpanded128

\* the two S-boxes undo each other on every byte, and each takes every value
C22_BoxesInverse ==
    /\ \A x \in 0..255 : REVERSE_S_BOX[FORWARD_S_BOX[x + 1] + 1] = x
    /\ \A x \in 0..255 : FORWARD_S_BOX[REVERSE_S_BOX[x + 1] + 1] = x
    /\ {FORWARD_S_BOX[x + 1] : x \in 0..255} = 0..255
    /\ {REVERSE_S_BOX[x + 1] : x \in 0..255} = 0..255

\* C22: SubBytes and InvSubBytes.  sub_bytes sets each byte i of the state to
\* FORWARD_S_BOX of its old value and inv_sub_bytes to REVERSE_S_BOX of it,
\* using no other byte; the two tables are permutations of 0..255 that undo
\* each other, so inv_sub_bytes gives back the state sub_bytes was applied to.
C22_SubBytes ==
    /\ C22_BoxesInverse
    /\ \A k \in Calls("sub_bytes") :
          /\ len(fn[k].out) = AES_BLOCK_LEN
          /\ \A i \in 0..15 : fn[k].out[i + 1] = FORWARD_S_BOX[fn[k].arg[i + 1] + 1]
          /\ (k < Len(fn) /\ fn[k + 1].f = "inv_sub_bytes")
                => fn[k + 1].out = fn[k].arg
    /\ \A k \in Calls("inv_sub_bytes") :
          /\ len(fn[k].out) = AES_BLOCK_LEN
          /\ \A i \in 0..15 : fn[k].out[i + 1] = REVERSE_S_BOX[fn[k].arg[i + 1] + 1]
          /\ (k < Len(fn) /\ fn[k + 1].f = "sub_bytes")
                => fn[k + 1].out = fn[k].arg

\* sub_bytes has turned 00 01 02 .. into 63 7c 77 .., and inv_sub_bytes has
\* turned that back
C22_Witness ==
    /\ Len(fn) = 2
    /\ fn[1].f = "sub_bytes" /\ fn[1].arg = SeqKey(16)
    /\ SubSeq(fn[1].out, 1, 4) = << 99, 124, 119, 123 >>
    /\ fn[2].f = "inv_sub_bytes" /\ fn[2].out = SeqKey(16)

\* the entry of x in the table of the multiplier n
TableTimes(n, x) ==
    CASE n = 2  -> GF_MUL2[x + 1]
      [] n = 3  -> GF_MUL3[x + 1]
      [] n = 9  -> GF_MUL9[x + 1]
      [] n = 11 -> GF_MUL11[x + 1]
      [] n = 13 -> GF_MUL13[x + 1]
      [] n = 14 -> GF_MUL14[x + 1]

\* the XOR of the table entries of the bits of x, from bit j upwards
RECURSIVE BitSum(_, _, _)
BitSum(n, x, j) ==
    IF j > 7 THEN 0
    ELSE Xor(IF (x \div (2 ^ j)) % 2 = 1 THEN TableTimes(n, 2 ^ j) ELSE 0,
             BitSum(n, x, j + 1))

\* entry (r, c) of the product of the matrices a and b over GF(2^8)
MatrixProduct(a, b, r, c) ==
    Xor(Xor(GFMul(a[r][1], b[1][c]), GFMul(a[r][2], b[2][c])),
        Xor(GFMul(a[r][3], b[3][c]), GFMul(a[r][4], b[4][c])))

\* the two matrices are inverse to each other over GF(2^8)
C23_MatricesInverse ==
    \A r \in 1..4, c \in 1..4 :
        /\ MatrixProduct(InvMixMatrix, MixMatrix, r, c) = IF r = c THEN 1 ELSE 0
        /\ MatrixProduct(MixMatrix, InvMixMatrix, r, c) = IF r = c THEN 1 ELSE 0

\* C23: InvMixColumns undoes MixColumns.  inv_mix_columns applied to the
\* result of mix_columns gives the state back, and so does mix_columns applied
\* to the result of inv_mix_columns: on every state with a single bit set and
\* on the test blocks; every table entry is the XOR of the entries of the bits
\* of its index, so both transforms are XOR-linear and the states with one bit
\* decide all states; and the matrix (14 11 13 9) is the inverse of (2 3 1 1)
\* over GF(2^8).
C23_MixColumnsInverse ==
    /\ C23_MatricesInverse
    /\ \A k \in Calls("gf_mul") :
          fn[k].out = BitSum(fn[k].round, fn[k].arg, 0)
    /\ \A k \in Calls("mix_columns") :
          (k < Len(fn) /\ fn[k + 1].f = "inv_mix_columns")
            => fn[k + 1].out = fn[k].arg
    /\ \A k \in Calls("inv_mix_columns") :
          (k < Len(fn) /\ fn[k + 1].f = "mix_columns")
            => fn[k + 1].out = fn[k].arg

\* mix_columns has undone inv_mix_columns on the block 32 43 f6 a8 ..
C23_Witness ==
    /\ Len(fn) = 2
    /\ fn[1].f = "inv_mix_columns" /\ fn[1].arg = Block3243
    /\ fn[1].out # Block3243
    /\ fn[2].f = "mix_columns" /\ fn[2].arg = fn[1].out
    /\ fn[2].out = Block3243

\* the call in progress, or the last one made, is op
Rc2Op(op) == rc2.calls # << >> /\ rc2.calls[Len(rc2.calls)] = op

\* the place p of a trace belongs to a mash: after the fifth and after the
\* eleventh round, each round reading four subkeys and each mash four
InMash(p) == p \in 21..24 \cup 49..52

\* how many of the places before p belong to a round
RoundReads(p) == (p - 1) - (IF p > 24 THEN 4 ELSE 0) - (IF p > 52 THEN 4 ELSE 0)

\* the trace t reads the subkeys in the order of a call whose rounds are
\* round and whose mashes are mashing, the rounds starting at the subkey
\* first and going up (step = 1) or down (step = -1)
Rc2Order(t, round, mashing, first, step) ==
    /\ Len(t) <= 72
    /\ \A p \in 1..Len(t) :
          /\ t[p][2] \in 0..63
          /\ IF InMash(p) THEN t[p][1] = mashing
             ELSE t[p] = << round, first + step * RoundReads(p) >>

\* C24: the 64-bit-block cipher Rc2.  With a key of 1 to 16 bytes and an
\* 8-byte block no call aborts; decrypt applied to the block encrypt has left
\* restores the caller's block; encrypt reads the subkeys ek[0..63] once each
\* in increasing order over its 16 mix rounds, with a mash after the 5th and
\* after the 11th round; decrypt reads them from 63 down to 0, with a
\* reverse_mash after its 5th and its 11th reverse_mix round; and no call
\* indexes ek outside 0..63.
C24_Rc2 ==
    (len(key) \in 1..16 /\ (rc2.calls = << >> \/ len(rc2.plain) = 8))
      => /\ rc2.pc # "panicked"
         /\ rc2.pc # "none" => len(rc2.ek) = 64
         /\ (rc2.pc = "ready" /\ rc2.calls = << "encrypt", "decrypt" >>)
               => rc2.block = rc2.plain
         /\ Rc2Op("encrypt") => Rc2Order(rc2.trace, "mix", "mash", 0, 1)
         /\ Rc2Op("decrypt")
               => Rc2Order(rc2.trace, "reverse_mix", "reverse_mash", 63, -1)
         /\ (rc2.calls # << >> /\ rc2.pc \in {"store", "ready"})
               => Len(rc2.trace) = 72
         /\ rc2.pc \in {"mix", "reverse_mix"}
               => Len(rc2.trace) = 4 * rc2.i + (IF rc2.i > 4 THEN 4 ELSE 0)
                                             + (IF rc2.i > 10 THEN 4 ELSE 0)

\* under the key ff .. ff, decrypt has restored the block ff .. ff from what
\* encrypt had left, reading ek[0] last
C24_Witness ==
    /\ rc2.pc = "ready" /\ rc2.calls = << "encrypt", "decrypt" >>
    /\ key = << 255, 255, 255, 255, 255, 255, 255, 255 >>
    /\ rc2.plain = << 255, 255, 255, 255, 255, 255, 255, 255 >>
    /\ rc2.block = rc2.plain
    /\ Len(rc2.trace) = 72 /\ rc2.trace[72] = << "reverse_mix", 0 >>

\* the number of words of the schedule of the run
KsWords == AES_NB * (ks.nr + 1)

\* the buffer with every byte from word i on, those the run has not written
\* yet, set to v
NotYetWritten(buf, i, v) ==
    SubSeq([j \in 1..len(buf) |-> IF j > WORD_SIZE * i THEN v ELSE buf[j]],
           1, len(buf))

\* the largest index of RCON a run with nk words of key uses
MaxRconIndex(nk) == CASE nk = 4 -> 9 [] nk = 6 -> 7 [] nk = 8 -> 6

\* a run on a key of 16, 24 or 32 bytes and a buffer of its (Nr + 1) * 16 bytes
C25_IndexSafe ==
    (/\ len(ks.key) \in {AES128_KEY_LEN, AES192_KEY_LEN, AES256_KEY_LEN}
     /\ len(ks.expanded_key) = (NrOfKeyLen(len(ks.key)) + 1) * AES_BLOCK_LEN)
      => /\ ks.pc # "panicked"
         /\ ks.pc = "loop" => ks.i \in ks.nk..KsWords
         /\ (ks.pc = "loop" /\ ks.i < KsWords)
               => /\ ks.i - 1 \in 0..(ks.i - 1)
                  /\ ks.i - ks.nk \in 0..(ks.i - 1)
                  /\ ks.i % ks.nk = 0
                        => /\ ks.i \div ks.nk - 1 \in 0..MaxRconIndex(ks.nk)
                           /\ MaxRconIndex(ks.nk) <= 9 /\ Len(RCON) = 10
                  /\ \A v \in {0, 255} :
                        LET a == key_expansion_word(ks.expanded_key, ks.i, ks.nk)
                            b == key_expansion_word(
                                     NotYetWritten(ks.expanded_key, ks.i, v),
                                     ks.i, ks.nk)
                        IN  /\ ~a.panic /\ ~b.panic
                            /\ SubSeq(a.val, WORD_SIZE * ks.i + 1, WORD_SIZE * ks.i + 4)
                                 = SubSeq(b.val, WORD_SIZE * ks.i + 1,
                                          WORD_SIZE * ks.i + 4)
         /\ ks.pc = "done"
               => /\ ks.i = KsWords
                  /\ WORD_SIZE * KsWords = len(ks.expanded_key)

\* a step of the run writes the word ks.i and no other byte, and goes on to
\* the next word; the first word written is word nk, and the run returns only
\* when the last word is written
C25_OneWordPerStep ==
    /\ (ks.pc = "enter" /\ ks'.pc = "loop")
          => /\ ks'.i = ks'.nk
             /\ \A j \in (WORD_SIZE * ks'.nk + 1)..len(ks'.expanded_key) :
                   ks'.expanded_key[j] = 0
    /\ (ks.pc = "loop" /\ ks'.pc = "loop")
          => /\ ks'.i = ks.i + 1
             /\ len(ks'.expanded_key) = len(ks.expanded_key)
             /\ \A j \in 1..len(ks.expanded_key) :
                   j \notin (WORD_SIZE * ks.i + 1)..(WORD_SIZE * ks.i + 4)
                     => ks'.expanded_key[j] = ks.expanded_key[j]
    /\ (ks.pc = "loop" /\ ks'.pc = "done")
          => (ks.i = KsWords /\ ks'.expanded_key = ks.expanded_key)

\* C25: key expansion is index-safe.  With a key of 16, 24 or 32 bytes and a
\* buffer of (Nr + 1) * 16 bytes the run does not abort; every index
\* i / Nk - 1 of RCON lies in 0..9 (at most 9, 7 and 6 for Nk = 4, 6, 8);
\* the words w[i - 1] and w[i - Nk] a step reads were written before it, and
\* its result does not depend on any byte not yet written; the words Nk ..
\* 4 * (Nr + 1) - 1 are written once each, in increasing order, and the run
\* returns only when the last of them is written.
C25_KeyExpansionSafe == [](C25_IndexSafe) /\ [][C25_OneWordPerStep]_vars

\* the run on the key 2b7e..3c has just written word 40, the only one that
\* takes the last round constant, RCON[9]
C25_Witness ==
    /\ ks.pc = "loop" /\ ks.key = TestKey128 /\ ks.nk = 4 /\ ks.i = 41
    /\ SubSeq(ks.expanded_key, 161, 164) = SubSeq(TestExpanded128, 161, 164)
    /\ SubSeq(ks.expanded_key, 165, 176) = zeroed(12)
=============================================================================
